---- MODULE Spec2Model ----
(***************************************************************************)
(* Verification model of the debug adapter's concurrent core:              *)
(*   - TargetManager / Target      (src/src/browser/browserDelegate.ts)    *)
(*   - BrowserLauncher             (src/src/browser/browserDelegate.ts,    *)
(*                                  src/unnamed/part_000)                  *)
(*   - BreakpointManager/Breakpoint (src/unnamed/part_002)                 *)
(*   - StackTrace                  (src/unnamed/part_001)                  *)
(*                                                                         *)
(* The adapter is single-threaded and cooperative: a handler runs until    *)
(* its next `await`.  Every action below is one such run.  A continuation  *)
(* that needs no I/O (a promise that is already settled) runs before any   *)
(* further event is delivered; the guards `~TmReady` / `~BpReady` on the   *)
(* event actions state that.                                               *)
(***************************************************************************)
EXTENDS Integers, Sequences, FiniteSets, TLC

VARIABLES
  \* ---- NodeAttacherBase (part_000) ----
  naProgram,        \* this.program: 0 when there is none
  naLaunched,       \* number of programs started so far
  naCaptured,       \* capturedEntryProgram
  naLifecycles,     \* the lifecycles returned by createLifecycle, in order
  naRuns,           \* runs of onFirstInitialize, by the program of the lifecycle
  naTelemetry,      \* programs that were given telemetry
  \* ---- ServiceWorkerModel (serviceWorkers.ts 42-117) ----
  swRegistrations,  \* ServiceWorkerModel._registrations: the ids it holds
  swCdp,            \* ServiceWorkerModel._cdp
  swEnabling,       \* the connections whose addTarget awaits ServiceWorker.enable
  swEnabled,        \* the connections ServiceWorker.enable was sent on
  swSubscribed,     \* the connections whose worker events are subscribed to
  swBatch,          \* the last batch _workerRegistrationsUpdated processed
  swChanges,        \* the number of onDidChange events fired, modulo 2
  \* ---- StackTrace._appendStackTrace on its own (part_001 83-118) ----
  asyncAppend,      \* the last chain appended: the StackTrace before and after
  \* ---- one Breakpoint's resolutions (part_002 92-114) ----
  resolvedAt,       \* Breakpoint._resolvedUiLocation
  resolvedIds,      \* Breakpoint._resolvedBreakpoints
  translations,     \* breakpointResolved calls awaiting rawLocationToUiLocation
  assignments,      \* what was assigned to _resolvedUiLocation before remove()
  removeCalled,     \* remove() has been called
  \* ---- the script-source-map handler's answer (part_002 256-277) ----
  byPath,           \* BreakpointManager._byPath: the Breakpoints per authored source
  byRef,            \* BreakpointManager._byRef
  handlerResult,    \* the last _scriptSourceMapHandler call and its answer
  \* ---- Breakpoint conditions (part_002 35-51) ----
  logPoints,        \* the Breakpoints constructed: their params and _condition
  sentConditions,   \* the conditions sent to the runtime, per Breakpoint
  \* ---- setVariable over objects that change ----
  remoteObjects,    \* the runtime's objects, by object id: their properties
  references,       \* variables_reference -> object id
  assigned,         \* the value last set for each (object, name) by setVariable
  response,         \* the last answer to evaluate / variables / setVariable
  variableStore,    \* variables_reference -> handle, and what evaluate answered
  reply,            \* the last answer to evaluate / variables
  sourceMap,        \* the SourceMap under use: << >> before `new SourceMap`
  lookup,           \* the last findEntry / findReverseEntry call and its result
  vlq,              \* the last decodeVLQ call and its result
  resolution,       \* the last BrowserSourcePathResolver call and its result
  \* ---- StackTrace (part_001 18-124) ----
  lastFrameId,      \* StackTrace._lastFrameId (static)
  stackTraces,      \* the StackTrace instances, in order of construction
  loads,            \* loadFrames calls awaiting Debugger.getStackTrace
  loadLog,          \* finished loadFrames calls: what they found and issued
  issueLog,         \* what loadFrames saw whenever it issued Debugger.getStackTrace
  \* ---- BreakpointManager / Breakpoint (part_002 22-497) ----
  lastBreakpointId, \* the module counter behind generateBreakpointIds
  callCount,        \* number of setBreakpoints requests received
  bps,              \* the Breakpoint objects, by DAP id
  index,            \* BreakpointManager._byPath and ._byRef
  thread,           \* BreakpointManager._thread is set
  scripts,          \* ids of the parsed scripts whose source map names the source
  setters,          \* install commands in flight (the unsettled _activeSetters)
  tasks,            \* suspended set() calls and script-source-map handlers
  calls,            \* setBreakpoints calls suspended in `await Promise.all(remove)`
  managerResolved,  \* BreakpointManager._resolvedBreakpoints, as pairs <<cdpId, dapId>>
  installed,        \* the breakpoint ids the runtime holds
  events,           \* DAP `breakpoint` changed events emitted, per DAP id:
                    \* before / after remove() was called on the Breakpoint
                    \* (none, one, several)
  installs,         \* the locations install commands were issued for, per
                    \* Breakpoint, before its remove()
  handled,          \* the finished script-source-map handlers: the Breakpoints
                    \* listed when each started and those it updated
  removedEarly,     \* Breakpoints whose remove() issued removeBreakpoint with one
                    \* of their own install commands still in flight
  setBeforeRemoved, \* pairs <<b, p>>: set() was invoked on b, listed by a
                    \* setBreakpoints call in place of p, before p's remove()
                    \* had completed
  cleared,          \* Breakpoints listed when a setBreakpoints with an empty list
                    \* took their place, once that call has completed
  \* ---- BrowserLauncher (browserDelegate.ts 27-166, part_000 132-387) ----
  launchPc,         \* position of prepareLaunch
  browserTargets,   \* the targets the BrowserTargetManager currently lists
  removedTargets,   \* the targets it has removed
  mainTarget,       \* BrowserLauncher._mainTarget (NoTarget = undefined)
  disconnected,     \* the CDP connection has been closed
  terminatedFired,  \* number of _onTerminatedEmitter.fire() calls
  targetListChangedFired, \* number of _onTargetListChangedEmitter.fire() calls
  \* ---- TargetManager (browserDelegate.ts 274-371) ----
  targets,          \* keys of TargetManager._targets
  parentTarget,     \* Target._parentTarget, by target id (NoTarget = none)
  children,         \* Target._children, keys in Map insertion order
  targetType,       \* Target._targetInfo.type
  targetThreads,    \* Target._thread is set: the number of Threads constructed
  attachPc,         \* position of _attachToFirstPage / _attachedToTarget per target
  waitingForDebugger, \* the waitingForDebugger argument of _attachedToTarget
  detachStack,      \* per delivered Target.detachedFromTarget: the chain of nested
                    \* _detachedFromTarget invocations it is running
  detachDelivered,  \* the runtime has reported the target detached
  threadDisposed,   \* completed Thread.dispose() calls per target
  sessionDisposed,  \* session().dispose() calls per target
  attachedEmitted,  \* number of TargetAttached events emitted per target
  detachedEmitted,  \* number of TargetDetached events emitted per target
  unannounced       \* pairs <<a, d>>: TargetDetached for a was emitted while d, below a
                    \* when a's detach started, had had no TargetDetached yet

varsBL == <<launchPc, browserTargets, removedTargets, mainTarget, disconnected,
            terminatedFired, targetListChangedFired>>

varsTM == <<targets, parentTarget, children, targetType, targetThreads, attachPc,
            waitingForDebugger, detachStack, detachDelivered, threadDisposed,
            sessionDisposed, attachedEmitted, detachedEmitted, unannounced>>

varsBP == <<lastBreakpointId, callCount, bps, index, thread, scripts, setters,
            tasks, calls, managerResolved, installed, events,
            installs, handled, removedEarly, cleared, setBeforeRemoved>>

varsST == <<lastFrameId, stackTraces, loads, loadLog, issueLog>>

varsSM == <<sourceMap, lookup, vlq>>

varsPR == <<resolution>>

varsVS == <<variableStore, reply>>

varsSV == <<remoteObjects, references, assigned, response>>

varsLP == <<logPoints, sentConditions>>

varsRP == <<byPath, byRef, handlerResult>>

varsAC == <<asyncAppend>>

varsSW == <<swRegistrations, swCdp, swEnabling, swEnabled, swSubscribed, swBatch, swChanges>>

varsNA == <<naProgram, naLaunched, naCaptured, naLifecycles, naRuns, naTelemetry>>

varsRS == <<resolvedAt, resolvedIds, translations, assignments, removeCalled>>

vars == <<varsTM, varsBL, varsBP, varsST, varsSM, varsPR, varsVS, varsSV, varsLP, varsRP, varsRS, varsAC, varsSW, varsNA>>

\* what the actions of one component leave alone
restTM == <<varsBL, varsBP, varsST, varsSM, varsPR, varsVS, varsSV, varsLP, varsRP, varsRS, varsAC, varsSW, varsNA>>

restBL == <<varsTM, varsBP, varsST, varsSM, varsPR, varsVS, varsSV, varsLP, varsRP, varsRS, varsAC, varsSW, varsNA>>

restBP == <<varsTM, varsBL, varsST, varsSM, varsPR, varsVS, varsSV, varsLP, varsRP, varsRS, varsAC, varsSW, varsNA>>

restST == <<varsTM, varsBL, varsBP, varsSM, varsPR, varsVS, varsSV, varsLP, varsRP, varsRS, varsAC, varsSW, varsNA>>

restSM == <<varsTM, varsBL, varsBP, varsST, varsPR, varsVS, varsSV, varsLP, varsRP, varsRS, varsAC, varsSW, varsNA>>

restPR == <<varsTM, varsBL, varsBP, varsST, varsSM, varsVS, varsSV, varsLP, varsRP, varsRS, varsAC, varsSW, varsNA>>

restVS == <<varsTM, varsBL, varsBP, varsST, varsSM, varsPR, varsSV, varsLP, varsRP, varsRS, varsAC, varsSW, varsNA>>

restSV == <<varsTM, varsBL, varsBP, varsST, varsSM, varsPR, varsVS, varsLP, varsRP, varsRS, varsAC, varsSW, varsNA>>

restLP == <<varsTM, varsBL, varsBP, varsST, varsSM, varsPR, varsVS, varsSV, varsRP, varsRS, varsAC, varsSW, varsNA>>

restRP == <<varsTM, varsBL, varsBP, varsST, varsSM, varsPR, varsVS, varsSV, varsLP, varsRS, varsAC, varsSW, varsNA>>

restAC == <<varsTM, varsBL, varsBP, varsST, varsSM, varsPR, varsVS, varsSV, varsLP, varsRP, varsRS, varsSW, varsNA>>

restSW == <<varsTM, varsBL, varsBP, varsST, varsSM, varsPR, varsVS, varsSV, varsLP, varsRP, varsRS, varsAC, varsNA>>

restNA == <<varsTM, varsBL, varsBP, varsST, varsSM, varsPR, varsVS, varsSV, varsLP, varsRP, varsRS, varsAC, varsSW>>

restRS == <<varsTM, varsBL, varsBP, varsST, varsSM, varsPR, varsVS, varsSV, varsLP, varsRP, varsAC, varsSW, varsNA>>

----------------------------------------------------------------------------
(* Bounds                                                                  *)

MaxTargets == 2
MaxBrowserTargets == 3
MaxCalls == 3
MaxScripts == 1
MaxStackTraces == 2
MaxCallFrames == 1
MaxChain == 2
MaxLoads == 2
MaxLimit == 2
MaxFrameId == 5
MaxSegments == 2
MaxSections == 2
MaxQueryLine == 2
MaxQueryColumn == 2
SmallVLQ == 20
MaxPathDepth == 3
MaxReferences == 4
MaxObjects == 3
MaxContainers == 4
MaxLogPoints == 2
MaxRegistered == 2
MaxResolutions == 3
MaxChainCallFrames == 2
MaxConnections == 2
MaxRegistrations == 2
MaxBatch == 2

MaxPrograms == 2

MaxLifecycles == 3

----------------------------------------------------------------------------
(* Helpers                                                                 *)

NoTarget == 0
TargetIds == 1 .. MaxTargets

SeqToSet(s) == { s[i] : i \in 1 .. Len(s) }

RemoveFromSeq(s, x) == SelectSeq(s, LAMBDA y : y # x)

Last(s) == s[Len(s)]

----------------------------------------------------------------------------
(* TargetManager                                                           *)

\* Protocol.Target.TargetInfo.type: the types the runtime reports.
TargetTypes == {"page", "iframe", "worker", "service_worker", "node"}

\* const jsTypes = new Set(['page', 'iframe', 'worker'])
jsTypes == {"page", "iframe", "worker"}

NewThreadsWithNode(type) == IF type \in jsTypes \cup {"node"} THEN 1 ELSE 0

\* Target constructor: if (jsTypes.has(targetInfo.type)) this._thread = new Thread(this)
\* the number of Threads it constructs
NewThreads(type) == IF type \in jsTypes THEN 1 ELSE 0

\* `if (this._thread)` of _initialize and _dispose
HasThread(t) == targetThreads[t] # 0

\* The targets reachable from t through the _children maps.
RECURSIVE Descendants(_)
Descendants(t) ==
  LET cs == SeqToSet(children[t])
  IN  cs \cup UNION { Descendants(c) : c \in cs }

\* t and the targets on its _parentTarget chain.
RECURSIVE SelfAndAncestors(_)
SelfAndAncestors(t) ==
  IF t = NoTarget THEN {} ELSE {t} \cup SelfAndAncestors(parentTarget[t])

InitTM ==
  /\ targets = {}
  /\ parentTarget = [t \in TargetIds |-> NoTarget]
  /\ children = [t \in TargetIds |-> << >>]
  /\ targetType = [t \in TargetIds |-> "none"]
  /\ targetThreads = [t \in TargetIds |-> 0]
  /\ attachPc = [t \in TargetIds |-> "none"]
  /\ waitingForDebugger = [t \in TargetIds |-> FALSE]
  /\ detachStack = [t \in TargetIds |-> << >>]
  /\ detachDelivered = [t \in TargetIds |-> FALSE]
  /\ threadDisposed = [t \in TargetIds |-> 0]
  /\ sessionDisposed = [t \in TargetIds |-> 0]
  /\ attachedEmitted = [t \in TargetIds |-> 0]
  /\ detachedEmitted = [t \in TargetIds |-> 0]
  /\ unannounced = {}

\* The running invocation of the chain started by the event for e: an invocation
\* awaits at most one nested invocation, so the chain is a stack.
Running(e) == Last(detachStack[e])

\* A continuation that can run without any further I/O.
DetachRunnable(e) ==
  /\ detachStack[e] # << >>
  /\ Running(e).pc \in {"loop", "finish"}

TmReady == \E e \in TargetIds : DetachRunnable(e)

\* The session of t exists in the runtime: CDP delivers the events of one
\* connection in order, and none on a session after the detachedFromTarget
\* that ended it or one of the sessions it is nested in.
SessionLive(t) ==
  /\ attachPc[t] \notin {"none", "attachToTarget"}
  /\ \A a \in SelfAndAncestors(t) : ~detachDelivered[a]

\* Target ids are opaque: the runtime hands out the unused ids in order.
NextTargetId ==
  LET unused == { t \in TargetIds : attachPc[t] = "none" }
  IN  IF unused = {} THEN NoTarget ELSE CHOOSE t \in unused : \A u \in unused : t <= u

\* Variant of AttachedToTargetBody that forgets
\* `parentTarget._children.set(targetInfo.targetId, target)`.
AttachedToTargetBodyNoChildEntry(t, type, waiting, parent) ==
  /\ targetType' = [targetType EXCEPT ![t] = type]
  /\ targetThreads' = [targetThreads EXCEPT ![t] = NewThreads(type)]
  /\ parentTarget' = [parentTarget EXCEPT ![t] = parent]
  /\ targets' = targets \cup {t}
  /\ children' = children
  /\ waitingForDebugger' = [waitingForDebugger EXCEPT ![t] = waiting]
  /\ attachPc' = [attachPc EXCEPT ![t] = "setAutoAttach"]

\* _attachedToTarget, up to its first await (lines 313-328).
AttachedToTargetBody(t, type, waiting, parent) ==
  /\ targetType' = [targetType EXCEPT ![t] = type]
  /\ targetThreads' = [targetThreads EXCEPT ![t] = NewThreads(type)]
  /\ parentTarget' = [parentTarget EXCEPT ![t] = parent]
  /\ targets' = targets \cup {t}
  /\ children' = IF parent # NoTarget
                 THEN [children EXCEPT ![parent] = Append(@, t)]
                 ELSE children
  /\ waitingForDebugger' = [waitingForDebugger EXCEPT ![t] = waiting]
  /\ attachPc' = [attachPc EXCEPT ![t] = "setAutoAttach"]

\* browserSession 'Target.targetCreated' (lines 299-305), up to the await of
\* Target.attachToTarget.  A handler that returns early changes nothing.
TargetCreated(t, type) ==
  /\ ~TmReady
  /\ t = NextTargetId
  /\ targets = {}
  /\ type = "page"
  /\ attachPc' = [attachPc EXCEPT ![t] = "attachToTarget"]
  /\ targetType' = [targetType EXCEPT ![t] = type]
  /\ UNCHANGED <<targets, targetThreads, parentTarget, children,
                 waitingForDebugger, detachStack, detachDelivered, threadDisposed, sessionDisposed, attachedEmitted,
                 detachedEmitted, unannounced>>

\* Target.attachToTarget returns: this._attachedToTarget(targetInfo, sessionId, false, null)
AttachToTargetReturned(t) ==
  /\ ~TmReady
  /\ attachPc[t] = "attachToTarget"
  /\ AttachedToTargetBody(t, targetType[t], FALSE, NoTarget)
  /\ UNCHANGED <<detachStack, detachDelivered, threadDisposed, sessionDisposed,
                 attachedEmitted, detachedEmitted, unannounced>>

\* session 'Target.attachedToTarget' on the session of `parent` (lines 322-324).
AttachedToTarget(t, type, waiting, parent) ==
  /\ ~TmReady
  /\ t = NextTargetId
  /\ SessionLive(parent)
  /\ AttachedToTargetBody(t, type, waiting, parent)
  /\ UNCHANGED <<detachStack, detachDelivered, threadDisposed, sessionDisposed,
                 attachedEmitted, detachedEmitted, unannounced>>

AttachEmitSilent(t) ==
  /\ attachedEmitted' = attachedEmitted
  /\ attachPc' = [attachPc EXCEPT ![t] = "done"]
  /\ waitingForDebugger' = [waitingForDebugger EXCEPT ![t] = FALSE]

\* `if (!this._targets.has(targetInfo.targetId)) return; this.emit(TargetAttached)`
AttachEmit(t) ==
  /\ attachedEmitted' = IF t \in targets
                        THEN [attachedEmitted EXCEPT ![t] = @ + 1]
                        ELSE attachedEmitted
  /\ attachPc' = [attachPc EXCEPT ![t] = "done"]
  /\ waitingForDebugger' = [waitingForDebugger EXCEPT ![t] = FALSE]

AfterThreadInitNotWaiting(t) == AttachEmit(t)

\* Target._initialize after `await this._thread.initialize()` (or with no thread).
AfterThreadInit(t) ==
  IF waitingForDebugger[t]
  THEN /\ attachPc' = [attachPc EXCEPT ![t] = "runIfWaiting"]
       /\ UNCHANGED <<attachedEmitted, waitingForDebugger>>
  ELSE AttachEmit(t)

\* Target.setAutoAttach returns; target._initialize starts (lines 328-329, 399-404).
SetAutoAttachReturned(t) ==
  /\ ~TmReady
  /\ attachPc[t] = "setAutoAttach"
  /\ IF HasThread(t)
     THEN /\ attachPc' = [attachPc EXCEPT ![t] = "initialize"]
          /\ UNCHANGED <<attachedEmitted, waitingForDebugger>>
     ELSE AfterThreadInit(t)
  /\ UNCHANGED <<targets, parentTarget, children, targetType, targetThreads,
                 detachStack, detachDelivered, threadDisposed, sessionDisposed,
                 detachedEmitted, unannounced>>

\* this._thread.initialize() completes.
ThreadInitialized(t) ==
  /\ ~TmReady
  /\ attachPc[t] = "initialize"
  /\ AfterThreadInit(t)
  /\ UNCHANGED <<targets, parentTarget, children, targetType, targetThreads,
                 detachStack, detachDelivered, threadDisposed, sessionDisposed,
                 detachedEmitted, unannounced>>

\* Runtime.runIfWaitingForDebugger returns; _attachedToTarget lines 331-335.
RunIfWaitingReturned(t) ==
  /\ ~TmReady
  /\ attachPc[t] = "runIfWaiting"
  /\ AttachEmit(t)
  /\ UNCHANGED <<targets, parentTarget, children, targetType, targetThreads,
                 detachStack, detachDelivered, threadDisposed, sessionDisposed,
                 detachedEmitted, unannounced>>

\* A fresh invocation of _detachedFromTarget(t), `target` found (lines 339-342).
NewDetach(t) ==
  [target |-> t, pc |-> "loop", visited |-> {}, below |-> Descendants(t)]

\* 'Target.detachedFromTarget' (lines 308-310, 325-327) for a target the
\* runtime still holds: _detachedFromTarget(t) starts.
DetachedFromTarget(t) ==
  /\ ~TmReady
  /\ SessionLive(t)
  /\ detachDelivered' = [detachDelivered EXCEPT ![t] = TRUE]
  /\ detachStack' = [detachStack EXCEPT ![t] =
                       IF t \in targets THEN <<NewDetach(t)>> ELSE << >>]
  /\ UNCHANGED <<targets, parentTarget, children, targetType, targetThreads, attachPc,
                 waitingForDebugger, threadDisposed, sessionDisposed,
                 attachedEmitted, detachedEmitted, unannounced>>

\* The next key the live iterator of target._children.keys() yields.
NextChild(f) ==
  LET cs == SelectSeq(children[f.target], LAMBDA c : c \notin f.visited)
  IN  IF cs = << >> THEN NoTarget ELSE Head(cs)

\* Variant of DetachLoopBody that disposes the target without detaching its
\* children first.
DetachLoopBodySkipChildren(st) ==
  [st EXCEPT ![Len(st)].pc = IF HasThread(st[Len(st)].target) THEN "dispose" ELSE "finish"]

\* One turn of `for (const childTargetId of target._children.keys())
\*   await this._detachedFromTarget(childTargetId);` and, after the loop,
\* the call of target._dispose() (lines 344-346, 440-443).
DetachLoopBody(st) ==
  LET n == Len(st)
      f == st[n]
      c == NextChild(f)
  IN  IF c # NoTarget
      THEN IF c \in targets
           THEN Append([st EXCEPT ![n].pc = "awaitChild", ![n].visited = @ \cup {c}],
                       NewDetach(c))
           ELSE [st EXCEPT ![n].visited = @ \cup {c}]
      ELSE [st EXCEPT ![n].pc = IF HasThread(f.target) THEN "dispose" ELSE "finish"]

DetachLoop(e) ==
  /\ detachStack[e] # << >>
  /\ Running(e).pc = "loop"
  /\ detachStack' = [detachStack EXCEPT ![e] = DetachLoopBody(@)]
  /\ UNCHANGED <<targets, parentTarget, children, targetType, targetThreads, attachPc,
                 waitingForDebugger, detachDelivered, threadDisposed,
                 sessionDisposed, attachedEmitted, detachedEmitted, unannounced>>

\* `await this._thread.dispose()` completes (line 442).
ThreadDisposeReturned(e) ==
  /\ ~TmReady
  /\ detachStack[e] # << >>
  /\ Running(e).pc = "dispose"
  /\ threadDisposed' = [threadDisposed EXCEPT ![Running(e).target] = @ + 1]
  /\ detachStack' = [detachStack EXCEPT ![e][Len(detachStack[e])].pc = "finish"]
  /\ UNCHANGED <<targets, parentTarget, children, targetType, targetThreads, attachPc,
                 waitingForDebugger, detachDelivered, sessionDisposed,
                 attachedEmitted, detachedEmitted, unannounced>>

\* The invocation returns: the one awaiting it resumes its loop.
DetachReturn(st) ==
  LET n == Len(st)
  IN  IF n = 1 THEN << >> ELSE [SubSeq(st, 1, n - 1) EXCEPT ![n - 1].pc = "loop"]

\* Lines 347-353: session().dispose(); _targets.delete; _children.delete; emit.
DetachFinishBody(e) ==
  LET f == Running(e)
      t == f.target
      p == parentTarget[t]
  IN  /\ sessionDisposed' = [sessionDisposed EXCEPT ![t] = @ + 1]
      /\ targets' = targets \ {t}
      /\ children' = IF p # NoTarget
                     THEN [children EXCEPT ![p] = RemoveFromSeq(@, t)]
                     ELSE children
      /\ detachedEmitted' = [detachedEmitted EXCEPT ![t] = @ + 1]
      /\ unannounced' = unannounced \cup
                          { <<t, d>> : d \in { x \in f.below : detachedEmitted[x] = 0 } }
      /\ detachStack' = [detachStack EXCEPT ![e] = DetachReturn(@)]

DetachFinish(e) ==
  /\ detachStack[e] # << >>
  /\ Running(e).pc = "finish"
  /\ DetachFinishBody(e)
  /\ UNCHANGED <<parentTarget, targetType, targetThreads, attachPc, waitingForDebugger,
                 detachDelivered, threadDisposed, attachedEmitted>>

TargetsNext ==
  \/ \E t \in TargetIds, type \in TargetTypes : TargetCreated(t, type) /\ UNCHANGED restTM
  \/ \E t \in TargetIds : AttachToTargetReturned(t) /\ UNCHANGED restTM
  \/ \E t, p \in TargetIds, type \in TargetTypes, w \in BOOLEAN :
        AttachedToTarget(t, type, w, p) /\ UNCHANGED restTM
  \/ \E t \in TargetIds : SetAutoAttachReturned(t) /\ UNCHANGED restTM
  \/ \E t \in TargetIds : ThreadInitialized(t) /\ UNCHANGED restTM
  \/ \E t \in TargetIds : RunIfWaitingReturned(t) /\ UNCHANGED restTM
  \/ \E t \in TargetIds : DetachedFromTarget(t) /\ UNCHANGED restTM
  \/ \E e \in TargetIds : DetachLoop(e) /\ UNCHANGED restTM
  \/ \E e \in TargetIds : ThreadDisposeReturned(e) /\ UNCHANGED restTM
  \/ \E e \in TargetIds : DetachFinish(e) /\ UNCHANGED restTM

----------------------------------------------------------------------------
(* TargetManager: properties                                               *)

\* C8: TargetDetached events come in post-order.  When TargetDetached is emitted
\* for a target, one has already been emitted for every target that was below it
\* when its detach started; the target's Thread (if it has one) has been
\* disposed; and from then on the target is neither in the global target table
\* nor in its parent's children map.
C8_PostOrderDetach ==
  /\ unannounced = {}
  /\ \A t \in TargetIds :
       detachedEmitted[t] > 0 =>
         /\ HasThread(t) => threadDisposed[t] > 0
         /\ t \notin targets
         /\ parentTarget[t] # NoTarget => t \notin SeqToSet(children[parentTarget[t]])

\* A target with a child has been detached: both events have been emitted.
C8_Witness ==
  \E t, d \in TargetIds :
    /\ parentTarget[d] = t
    /\ detachedEmitted[t] > 0
    /\ detachedEmitted[d] > 0
    /\ HasThread(t)

\* C9: every target in the global target table that has a parent is in that
\* parent's children map under its own id, and the parent is itself in the
\* global target table.
C9_ChildHeldByListedParent ==
  \A t \in targets :
    parentTarget[t] # NoTarget =>
      /\ t \in SeqToSet(children[parentTarget[t]])
      /\ parentTarget[t] \in targets

\* A child is still listed while the detach of its parent is under way.
C9_Witness ==
  \E t \in targets :
    /\ parentTarget[t] # NoTarget
    /\ detachStack[parentTarget[t]] # << >>
    /\ detachDelivered[t]

\* the Target object of t has been constructed
Constructed(t) == attachPc[t] \notin {"none", "attachToTarget"}

\* C22 as stated: a constructed Target has a Thread exactly when its type is
\* page, iframe, worker or node, and never more than one.
C22_ThreadForPageIframeWorkerNode ==
  \A t \in TargetIds :
    Constructed(t) =>
      /\ targetThreads[t] <= 1
      /\ targetThreads[t] = 1
           <=> targetType[t] \in {"page", "iframe", "worker", "node"}

\* C22, amended: a constructed Target has a Thread exactly when its type is
\* page, iframe or worker (a node target has none, as a service_worker has
\* none), and never more than one.
C22_ThreadForPageIframeWorker ==
  \A t \in TargetIds :
    Constructed(t) =>
      /\ targetThreads[t] <= 1
      /\ targetThreads[t] = 1 <=> targetType[t] \in {"page", "iframe", "worker"}

\* a page with its Thread holds a node target without one
C22_Witness ==
  \E t, c \in TargetIds :
    /\ Constructed(t) /\ targetType[t] = "page" /\ targetThreads[t] = 1
    /\ Constructed(c) /\ targetType[c] = "node" /\ targetThreads[c] = 0


\* C25: TargetDetached is emitted at most once per target, and the target's
\* Thread and its session are disposed at most once, whatever further
\* Target.detachedFromTarget events (for the target, for a target below it
\* or for one above it) arrive while a detach of it is awaiting.
C25_DetachedAndDisposedOnce ==
  \A t \in TargetIds :
    /\ detachedEmitted[t] <= 1
    /\ threadDisposed[t] <= 1
    /\ sessionDisposed[t] <= 1

\* Target.attachToTarget has been sent for t from a Target.targetCreated event
AttachedFromTargetCreated(t) ==
  attachPc[t] # "none" /\ parentTarget[t] = NoTarget

\* C29: Target.attachToTarget is sent for at most one Target.targetCreated
\* event, also when a further event arrives while the first request awaits
\* its response, and only for an event of type page.
C29_AtMostOneTopLevelPage ==
  /\ Cardinality({t \in TargetIds : AttachedFromTargetCreated(t)}) <= 1
  /\ \A t \in TargetIds : AttachedFromTargetCreated(t) => targetType[t] = "page"

\* _attachedToTarget is awaiting Target.setAutoAttach or target._initialize
Initializing(t) == attachPc[t] \in {"setAutoAttach", "initialize", "runIfWaiting"}

\* the await that _attachedToTarget for t completes last: Target.setAutoAttach
\* for a target without Thread that is not waiting, thread.initialize() for
\* one with a Thread, Runtime.runIfWaitingForDebugger for one that is waiting
LastAwait(t) ==
  IF waitingForDebugger[t] THEN "runIfWaiting"
  ELSE IF HasThread(t) THEN "initialize" ELSE "setAutoAttach"

C33_DetachedPrecededByAttached ==
  \A t \in TargetIds : detachedEmitted[t] > 0 => attachedEmitted[t] > 0

\* C33, amended: TargetDetached is emitted for a target only after
\* TargetAttached, unless a detach of the target completes while the target
\* is still initializing; for such a target TargetAttached is never emitted.
C33_DetachedPrecededByAttachedUnlessInitializing ==
  /\ [][\A t \in TargetIds :
          detachedEmitted'[t] > detachedEmitted[t] =>
            \/ attachedEmitted[t] > 0
            \/ Initializing(t)
            \/ detachedEmitted[t] > 0]_vars
  /\ [][\A t \in TargetIds :
          attachedEmitted'[t] > attachedEmitted[t] => detachedEmitted[t] = 0]_vars

\* both cases: a target announced and then detached, and a target detached
\* while it was initializing
C33_Witness ==
  \E t, c \in TargetIds :
    /\ attachedEmitted[t] > 0 /\ detachedEmitted[t] > 0
    /\ attachedEmitted[c] = 0 /\ detachedEmitted[c] > 0

----------------------------------------------------------------------------
(* BrowserLauncher                                                         *)

BrowserTargetIds == 1 .. MaxBrowserTargets

InitBL ==
  /\ launchPc = "start"
  /\ browserTargets = {}
  /\ removedTargets = {}
  /\ mainTarget = NoTarget
  /\ disconnected = FALSE
  /\ terminatedFired = 0
  /\ targetListChangedFired = 0

\* prepareLaunch up to `await this._targetManager.waitForMainTarget()`: the
\* browser is launched, the onDisconnected and target-list listeners are set.
PrepareLaunch ==
  /\ launchPc = "start"
  /\ launchPc' = "waitForMainTarget"
  /\ UNCHANGED <<browserTargets, removedTargets, mainTarget, disconnected,
                 terminatedFired, targetListChangedFired>>

\* waitForMainTarget resolves with a listed target or with undefined; with a
\* target, the onTargetRemoved listener for termination is set and the target
\* is returned; with undefined an error is returned.
WaitForMainTargetReturned(t) ==
  /\ launchPc = "waitForMainTarget"
  /\ t \in browserTargets \cup {NoTarget}
  /\ mainTarget' = t
  /\ launchPc' = IF t = NoTarget THEN "error" ELSE "returned"
  /\ UNCHANGED <<browserTargets, removedTargets, disconnected, terminatedFired,
                 targetListChangedFired>>

\* `connection.onDisconnected(() => this._onTerminatedEmitter.fire())`
Disconnected ==
  /\ launchPc # "start"
  /\ ~disconnected
  /\ disconnected' = TRUE
  /\ terminatedFired' = terminatedFired + 1
  /\ UNCHANGED <<launchPc, browserTargets, removedTargets, mainTarget,
                 targetListChangedFired>>

\* onTargetAdded listener: this._onTargetListChangedEmitter.fire()
TargetAdded(t) ==
  /\ launchPc # "start"
  /\ ~disconnected
  /\ t \notin browserTargets \cup removedTargets
  /\ browserTargets' = browserTargets \cup {t}
  /\ targetListChangedFired' = targetListChangedFired + 1
  /\ UNCHANGED <<launchPc, removedTargets, mainTarget, disconnected, terminatedFired>>

\* Variant of FiresTerminated that does not compare with the main target.
FiresTerminatedForAnyTarget(t) == launchPc = "returned"

\* The second onTargetRemoved listener, set once the main target is known:
\* `if (target === this._mainTarget) this._onTerminatedEmitter.fire()`
FiresTerminated(t) == launchPc = "returned" /\ t = mainTarget

\* The onTargetRemoved listeners run for target t.
TargetRemoved(t) ==
  /\ launchPc # "start"
  /\ t \in browserTargets
  /\ browserTargets' = browserTargets \ {t}
  /\ removedTargets' = removedTargets \cup {t}
  /\ targetListChangedFired' = targetListChangedFired + 1
  /\ terminatedFired' = IF FiresTerminated(t) THEN terminatedFired + 1 ELSE terminatedFired
  /\ UNCHANGED <<launchPc, mainTarget, disconnected>>

LauncherNext ==
  \/ PrepareLaunch /\ UNCHANGED restBL
  \/ \E t \in BrowserTargetIds \cup {NoTarget} :
        WaitForMainTargetReturned(t) /\ UNCHANGED restBL
  \/ Disconnected /\ UNCHANGED restBL
  \/ \E t \in BrowserTargetIds : TargetAdded(t) /\ UNCHANGED restBL
  \/ \E t \in BrowserTargetIds : TargetRemoved(t) /\ UNCHANGED restBL

\* C10: once prepareLaunch has returned a main target, the removal of that
\* target fires onTerminated and the removal of any other target does not.
C10_MainTargetRemovalTerminates ==
  [][ \A t \in BrowserTargetIds :
        (launchPc = "returned" /\ t \in browserTargets /\ t \notin browserTargets')
          => (terminatedFired' = terminatedFired + 1 <=> t = mainTarget)
          /\ (terminatedFired' = terminatedFired <=> t # mainTarget) ]_vars

\* The main target and another target have both been removed after the return,
\* and onTerminated has fired once.
C10_Witness ==
  /\ launchPc = "returned"
  /\ mainTarget \in removedTargets
  /\ removedTargets # {mainTarget}
  /\ ~disconnected
  /\ terminatedFired = 1

----------------------------------------------------------------------------
(* BreakpointManager and Breakpoint (src/unnamed/part_002 22-497)          *)
(*                                                                         *)
(* The world: one authored source (path PathA, url UrlA, also reachable by *)
(* its source reference) compiled into scripts that all have url UrlB; a   *)
(* reload parses a further script with the same url.  A DAP request names  *)
(* the source by path or by reference and lists at most one breakpoint.    *)
(* The runtime names a breakpoint after its location, as Chrome does, and  *)
(* refuses a second breakpoint at a location it already holds one for.     *)

BpIds == 1 .. MaxCalls

ScriptIds == 1 .. MaxScripts

Lines == {1}

PathA == "a.ts"

UrlA == "http://localhost/a.ts"

UrlB == "http://localhost/bundle.js"

NoUrl == "undefined"

\* sourcePathResolver.absolutePathToUrl for the authored file
AbsolutePathToUrl(path) == IF path = PathA THEN UrlA ELSE NoUrl

\* the source map: authored line -> line of the compiled script
GeneratedLine(l) == IF l = 1 THEN 1 ELSE 42

\* BreakpointsPredictor.predictedResolvedLocations: the local source maps cover
\* these authored lines only
PredictedLines == {1}

\* Breakpoint._urlLocation
UrlLocation(url, line, column) == <<line, column, url>>

NoBreakpoint ==
  [src |-> "none", line |-> 0, resolvedBreakpoints |-> {},
   resolvedUiLocation |-> FALSE, setUrlLocations |-> {}, translating |-> FALSE,
   removePc |-> "none", removeWait |-> {}, removing |-> {},
   sets |-> 0]    \* the number of set() calls on it: none, one, several

\* the url locations an install command was issued for, per kind of command, and
\* the pairs <<kind of an earlier command, kind of a later command>> that were
\* issued for one and the same location
NoInstalls == [url |-> {}, script |-> {}, repeated |-> {}]

\* what a script-source-map handler found and did: the Breakpoints listed when
\* the script arrived, those it ran updateForSourceMap on and, once it has
\* finished, those of the listed ones with an install command still unanswered
Handled(script, registered, updated, unanswered) ==
  [script |-> script, registered |-> registered, updated |-> updated,
   unanswered |-> unanswered]

NoHandler == Handled(0, {}, {}, {})

InitBP ==
  /\ lastBreakpointId = 0
  /\ callCount = 0
  /\ bps = [b \in BpIds |-> NoBreakpoint]
  /\ index = [s \in {"path", "ref"} |-> [defined |-> FALSE, list |-> << >>]]
  /\ thread = FALSE
  /\ scripts = {}
  /\ setters = {}
  /\ tasks = {}
  /\ calls = {}
  /\ managerResolved = {}
  /\ installed = {}
  /\ events = [b \in BpIds |-> [listed |-> 0, removed |-> 0]]
  /\ installs = [b \in BpIds |-> NoInstalls]
  /\ handled = {}
  /\ removedEarly = {}
  /\ setBeforeRemoved = {}
  /\ cleared = {}

\* The part of the state that set() and updateForSourceMap() work on; `fresh`
\* collects the install commands the running function has issued so far and
\* `origin` is the script whose source-map handler is running (0 = none).
BpState ==
  [bps |-> bps, setters |-> setters, tasks |-> tasks, installs |-> installs,
   events |-> events, fresh |-> {}, origin |-> 0]

FirstFree(used) ==
  CHOOSE n \in 1 .. (Cardinality(used) + 1) :
    n \notin used /\ \A m \in 1 .. (n - 1) : m \in used

RECURSIVE SetToSeq(_)
SetToSeq(S) ==
  IF S = {} THEN << >>
  ELSE LET x == CHOOSE y \in S : \A z \in S : y <= z
       IN  <<x>> \o SetToSeq(S \ {x})

\* SourceContainer.source(dapSource): the authored source is known once a
\* script whose source map names it has been parsed
SourceKnown(known) == known # {}

\* Thread.cdp().Debugger.setBreakpointByUrl / setBreakpoint is sent
IssueInstall(st, b, kind, key, script) ==
  LET id == FirstFree({s.id : s \in st.setters})
      was == st.installs[b]
      earlier == {k \in {"url", "script"} : key \in was[k]}
  IN [st EXCEPT
       !.setters = @ \cup {[id |-> id, bp |-> b, kind |-> kind, key |-> key,
                            script |-> script, origin |-> st.origin]},
       !.fresh = @ \cup {id},
       !.installs[b] =
           IF st.bps[b].removePc # "none" THEN @
           ELSE [@ EXCEPT ![kind] = @ \cup {key},
                          !.repeated = @ \cup {<<k, kind>> : k \in earlier}]]

SetByUrlUnrecorded(st, b, url, line) ==
  LET key == UrlLocation(url, line, 1)
  IN  IF key \in st.bps[b].setUrlLocations THEN st
      ELSE IssueInstall(st, b, "url", key, 0)

\* Breakpoint._setByUrl (175-193)
SetByUrl(st, b, url, line) ==
  LET key == UrlLocation(url, line, 1)
  IN  IF key \in st.bps[b].setUrlLocations THEN st
      ELSE IssueInstall([st EXCEPT !.bps[b].setUrlLocations = @ \cup {key}],
                        b, "url", key, 0)

SetByScriptIdUnchecked(st, b, script, line) ==
  IssueInstall(st, b, "script", UrlLocation(UrlB, line, 1), script)

\* Breakpoint._setByScriptId (195-213); every script of the world has a url
SetByScriptId(st, b, script, line) ==
  LET key == UrlLocation(UrlB, line, 1)
  IN  IF key \in st.bps[b].setUrlLocations THEN st
      ELSE IssueInstall(st, b, "script", key, script)

\* Breakpoint._setByPath (160-169)
SetByPath(st, b, known) ==
  LET bp == st.bps[b]
      url == IF SourceKnown(known) THEN UrlA
             ELSE IF bp.src = "path" THEN AbsolutePathToUrl(PathA) ELSE NoUrl
  IN  IF url = NoUrl THEN st ELSE SetByUrl(st, b, url, bp.line)

\* Breakpoint._setPredicted (136-151)
SetPredicted(st, b) ==
  LET bp == st.bps[b]
  IN  IF bp.src # "path" \/ bp.line \notin PredictedLines THEN st
      ELSE SetByUrl(st, b, UrlB, GeneratedLine(bp.line))

\* Breakpoint._setByUiLocation (153-158) for each sibling location, i.e. for
\* each parsed script, in order
RECURSIVE SetBySiblings(_, _, _)
SetBySiblings(st, b, ks) ==
  IF ks = << >> THEN st
  ELSE SetBySiblings(SetByScriptId(st, b, Head(ks), GeneratedLine(st.bps[b].line)),
                     b, Tail(ks))

\* the event counters tell none, one and several apart
Counted(n) == IF n < 2 THEN n + 1 ELSE n

\* Breakpoint._notifyResolved (61-64) and
\* BreakpointManager.notifyBreakpointResolved (459-471)
NotifyResolved(st, b) ==
  IF ~st.bps[b].resolvedUiLocation THEN st
  ELSE IF st.bps[b].removePc = "none"
       THEN [st EXCEPT !.events[b].listed = Counted(@)]
       ELSE [st EXCEPT !.events[b].removed = Counted(@)]

\* Breakpoint.set (66-90) up to `await Promise.all(promises)`; with nothing to
\* wait for it runs to its end
BreakpointSet(st, b, known) ==
  LET s0 == [st EXCEPT !.fresh = {}, !.bps[b].sets = Counted(@)]
      s1 == SetByPath(s0, b, known)
      s2 == SetPredicted(s1, b)
      s3 == IF SourceKnown(known) THEN SetBySiblings(s2, b, SetToSeq(known)) ELSE s2
  IN  IF s3.fresh = {} THEN NotifyResolved(s3, b)
      ELSE [s3 EXCEPT !.tasks = @ \cup {[type |-> "set", bp |-> b, handler |-> NoHandler,
                                          waitFor |-> s3.fresh]}]

RECURSIVE SetAll(_, _, _)
SetAll(st, list, known) ==
  IF list = << >> THEN st
  ELSE SetAll(BreakpointSet(st, Head(list), known), Tail(list), known)

\* Breakpoint.updateForSourceMap (116-134) for every Breakpoint of `list`
RECURSIVE UpdateAllForSourceMap(_, _, _)
UpdateAllForSourceMap(st, list, script) ==
  IF list = << >> THEN st
  ELSE UpdateAllForSourceMap(
         SetByScriptId(st, Head(list), script, GeneratedLine(st.bps[Head(list)].line)),
         Tail(list), script)

Commit(st) ==
  /\ bps' = st.bps
  /\ setters' = st.setters
  /\ tasks' = st.tasks
  /\ installs' = st.installs
  /\ events' = st.events

ListedByPathOnly == index["path"].list

\* the Breakpoints the manager lists, _byPath before _byRef (262-270, 400-401)
Listed == index["path"].list \o index["ref"].list

CallReadyAtOnce(c) == TRUE

\* a setBreakpoints call whose `await Promise.all(previous.map(b => b.remove()))`
\* has nothing left to wait for
CallReady(c) == \A b \in SeqToSet(c.previous) : bps[b].removePc = "done"

\* a continuation can run without any further I/O
BpReady ==
  \/ \E b \in BpIds : bps[b].removePc = "awaitSetters" /\ bps[b].removeWait = {}
  \/ \E c \in calls : CallReady(c)
  \/ \E t \in tasks : t.waitFor = {}

\* set() of the new Breakpoints of call c would start now: the pairs <<new,
\* previous>> with the remove() of the previous one not completed
SetBefore(c) ==
  {pair \in SeqToSet(c.new) \X SeqToSet(c.previous) :
     bps[pair[2]].removePc # "done"}

\* Breakpoint.remove (215-223), up to `await Promise.all(Array.from(_activeSetters))`
RemoveStart(bp, b) ==
  [bp EXCEPT !.resolvedUiLocation = FALSE,
             !.removePc = "awaitSetters",
             !.removeWait = {s.id : s \in {r \in setters : r.bp = b}}]

\* BreakpointManager.setBreakpoints (424-450) with generateBreakpointIds (493-497);
\* without a previous list it runs on to its end (451-456)
SetBreakpoints(src, points) ==
  /\ ~BpReady
  /\ callCount < MaxCalls
  /\ LET ids == [i \in 1 .. Len(points) |-> lastBreakpointId + i]
         previous == index[src]
         created == [b \in BpIds |->
                       IF \E i \in 1 .. Len(points) : ids[i] = b
                       THEN [NoBreakpoint EXCEPT !.src = src,
                                                 !.line = points[b - lastBreakpointId]]
                       ELSE bps[b]]
         st == [BpState EXCEPT !.bps = created]
     IN  /\ lastBreakpointId' = lastBreakpointId + Len(points)
         /\ callCount' = callCount + 1
         /\ index' = [index EXCEPT ![src] = [defined |-> TRUE, list |-> ids]]
         /\ IF previous.defined
            THEN /\ bps' = [b \in BpIds |->
                              IF b \in SeqToSet(previous.list)
                              THEN RemoveStart(created[b], b) ELSE created[b]]
                 /\ calls' = calls \cup {[new |-> ids, previous |-> previous.list]}
                 /\ UNCHANGED <<setters, tasks, installs, events>>
            ELSE /\ Commit(IF thread THEN SetAll(st, ids, scripts) ELSE st)
                 /\ UNCHANGED calls
  /\ UNCHANGED <<thread, scripts, managerResolved, installed, handled,
                 removedEarly, setBeforeRemoved, cleared>>

\* Breakpoint.remove (225-232): every setter of the snapshot has settled
RemoveContinue(b) ==
  /\ bps[b].removePc = "awaitSetters"
  /\ bps[b].removeWait = {}
  /\ LET ids == bps[b].resolvedBreakpoints
     IN  /\ managerResolved' = {p \in managerResolved : p[1] \notin ids}
         /\ bps' = [bps EXCEPT ![b].resolvedBreakpoints = {},
                               ![b].setUrlLocations = {},
                               ![b].removing = ids,
                               ![b].removePc = IF ids = {} THEN "done" ELSE "awaitCdp"]
  /\ removedEarly' = IF \E s \in setters : s.bp = b
                     THEN removedEarly \cup {b} ELSE removedEarly
  /\ UNCHANGED <<lastBreakpointId, callCount, index, thread, scripts, setters,
                 tasks, calls, installed, events, installs, handled,
                 cleared, setBeforeRemoved>>

\* the runtime has answered every Debugger.removeBreakpoint of one remove()
RemoveBreakpointReturned(b) ==
  /\ ~BpReady
  /\ bps[b].removePc = "awaitCdp"
  /\ installed' = installed \ bps[b].removing
  /\ bps' = [bps EXCEPT ![b].removing = {}, ![b].removePc = "done"]
  /\ UNCHANGED <<lastBreakpointId, callCount, index, thread, scripts, setters,
                 tasks, calls, managerResolved, events, installs,
                 handled, removedEarly, setBeforeRemoved, cleared>>

\* BreakpointManager.setBreakpoints (451-456)
SetBreakpointsContinue(c) ==
  /\ c \in calls
  /\ CallReady(c)
  /\ Commit(IF thread THEN SetAll(BpState, c.new, scripts) ELSE BpState)
  /\ calls' = calls \ {c}
  /\ cleared' = IF c.new = << >> THEN cleared \cup SeqToSet(c.previous) ELSE cleared
  /\ setBeforeRemoved' =
       IF thread THEN setBeforeRemoved \cup SetBefore(c) ELSE setBeforeRemoved
  /\ UNCHANGED <<lastBreakpointId, callCount, index, thread, scripts,
                 managerResolved, installed, handled, removedEarly>>

\* BreakpointManager.setThread (383-403)
SetThread ==
  /\ ~BpReady
  /\ ~thread
  /\ thread' = TRUE
  /\ Commit(SetAll(BpState, Listed, scripts))
  /\ setBeforeRemoved' =
       setBeforeRemoved \cup
         UNION {{pair \in SetBefore(c) : pair[1] \in SeqToSet(Listed)} :
                  c \in calls}
  /\ UNCHANGED <<lastBreakpointId, callCount, index, scripts, calls,
                 managerResolved, installed, handled, removedEarly, cleared>>

\* the Breakpoints of `listed` that have an install command in flight
Unanswered(listed) == {b \in listed : \E s \in setters : s.bp = b}

\* the Breakpoints the script-source-map handler walks (262-270)
HandlerBreakpointsByPathOnly == index["path"].list

HandlerBreakpoints == index["path"].list \o index["ref"].list

\* a script with a source map is parsed: the container learns the authored
\* source, then _scriptSourceMapHandler (256-272) runs up to its await
ScriptParsed(k) ==
  /\ ~BpReady
  /\ thread
  /\ k \in ScriptIds \ scripts
  /\ \A j \in ScriptIds : j < k => j \in scripts
  /\ scripts' = scripts \cup {k}
  /\ LET st == UpdateAllForSourceMap([BpState EXCEPT !.origin = k],
                                        HandlerBreakpoints, k)
         h == Handled(k, SeqToSet(Listed), SeqToSet(HandlerBreakpoints), {})
     IN  IF st.fresh = {}
         THEN /\ Commit(st)
              /\ handled' = handled \cup {[h EXCEPT !.unanswered = Unanswered(h.registered)]}
         ELSE /\ Commit([st EXCEPT !.tasks = @ \cup
                           {[type |-> "handler", bp |-> 0, handler |-> h,
                             waitFor |-> st.fresh]}])
              /\ UNCHANGED handled
  /\ UNCHANGED <<lastBreakpointId, callCount, index, thread, calls,
                 managerResolved, installed, removedEarly, setBeforeRemoved, cleared>>

\* the id the runtime gives a breakpoint: a function of its location
CdpId(s) == <<s.kind, s.script, s.key>>

Settle(waiting, id) == waiting \ {id}

\* Breakpoint.breakpointResolved (92-103): registers the id and, for a first
\* resolved location, starts thread.rawLocationToUiLocation
RegisterResolvedLocalOnly(b, cdpId) == managerResolved

RegisterResolved(b, cdpId) ==
  {p \in managerResolved : p[1] # cdpId} \cup {<<cdpId, b>>}

\* the runtime answers an install command (186-190, 204-210); the answer is no
\* result (always so when it holds a breakpoint at that location already), an
\* id without a location (by url only), or an id with a location
SetterReturned(s, result) ==
  /\ ~BpReady
  /\ s \in setters
  /\ result = "unbound" => s.kind = "url"
  /\ result # "none" => CdpId(s) \notin installed
  /\ LET b == s.bp
         cdpId == CdpId(s)
         afterAnswer ==
           IF result = "none" THEN bps
           ELSE [bps EXCEPT ![b].resolvedBreakpoints = @ \cup {cdpId},
                            ![b].translating =
                                @ \/ (result = "bound" /\ ~bps[b].resolvedUiLocation)]
     IN  /\ installed' = IF result = "none" THEN installed ELSE installed \cup {cdpId}
         /\ managerResolved' = IF result = "none" THEN managerResolved
                               ELSE RegisterResolved(b, cdpId)
         /\ bps' = [c \in BpIds |->
                      [afterAnswer[c] EXCEPT !.removeWait = Settle(@, s.id)]]
         /\ tasks' = {[t EXCEPT !.waitFor = Settle(@, s.id)] : t \in tasks}
         /\ setters' = setters \ {s}
  /\ UNCHANGED <<lastBreakpointId, callCount, index, thread, scripts, calls,
                 events, installs, handled, removedEarly, setBeforeRemoved, cleared>>

\* Debugger.breakpointResolved from the runtime (385-388, 92-103)
BreakpointResolvedEvent(cdpId) ==
  /\ ~BpReady
  /\ cdpId \in installed
  /\ cdpId[1] = "url"
  /\ \E b \in BpIds :
       /\ <<cdpId, b>> \in managerResolved
       /\ ~bps[b].resolvedUiLocation
       /\ ~bps[b].translating
       /\ bps' = [bps EXCEPT ![b].resolvedBreakpoints = @ \cup {cdpId},
                             ![b].translating = TRUE]
       /\ managerResolved' = RegisterResolved(b, cdpId)
  /\ UNCHANGED <<lastBreakpointId, callCount, index, thread, scripts, setters,
                 tasks, calls, installed, events, installs, handled,
                 removedEarly, setBeforeRemoved, cleared>>

\* Breakpoint.breakpointResolved (103-114): rawLocationToUiLocation returns a
\* location (located) or undefined
RawLocationToUiLocationReturned(b, located) ==
  /\ bps[b].translating
  /\ LET assign == ~bps[b].resolvedUiLocation /\ located /\ SourceKnown(scripts)
         st == [BpState EXCEPT !.bps[b].translating = FALSE,
                               !.bps[b].resolvedUiLocation = @ \/ assign]
     IN  Commit(IF assign THEN NotifyResolved(st, b) ELSE st)
  /\ UNCHANGED <<lastBreakpointId, callCount, index, thread, scripts, calls,
                 managerResolved, installed, handled, removedEarly, setBeforeRemoved, cleared>>

\* Breakpoint.set (88-90) after `await Promise.all(promises)`
SetFinishBody(st, b) == NotifyResolved(st, b)

SetFinish(t) ==
  /\ t \in tasks
  /\ t.type = "set"
  /\ t.waitFor = {}
  /\ Commit(SetFinishBody([BpState EXCEPT !.tasks = @ \ {t}], t.bp))
  /\ UNCHANGED <<lastBreakpointId, callCount, index, thread, scripts, calls,
                 managerResolved, installed, handled, removedEarly, setBeforeRemoved, cleared>>

\* _scriptSourceMapHandler (272-276) after `await Promise.all(todo)`
HandlerFinish(t) ==
  /\ t \in tasks
  /\ t.type = "handler"
  /\ t.waitFor = {}
  /\ tasks' = tasks \ {t}
  /\ handled' = handled \cup
                  {[t.handler EXCEPT !.unanswered = Unanswered(t.handler.registered)]}
  /\ UNCHANGED <<lastBreakpointId, callCount, bps, index, thread, scripts, setters,
                 calls, managerResolved, installed, events, installs,
                 removedEarly, setBeforeRemoved, cleared>>

Sources == {"path", "ref"}

PointLists == {<< >>} \cup {<<l>> : l \in Lines}

Answers == {"none", "unbound", "bound"}

BreakpointsNext ==
  \/ \E src \in Sources, points \in PointLists :
       SetBreakpoints(src, points) /\ UNCHANGED restBP
  \/ \E b \in BpIds : RemoveContinue(b) /\ UNCHANGED restBP
  \/ \E b \in BpIds : RemoveBreakpointReturned(b) /\ UNCHANGED restBP
  \/ \E c \in calls : SetBreakpointsContinue(c) /\ UNCHANGED restBP
  \/ SetThread /\ UNCHANGED restBP
  \/ \E k \in ScriptIds : ScriptParsed(k) /\ UNCHANGED restBP
  \/ \E s \in setters, r \in Answers :
       SetterReturned(s, r) /\ UNCHANGED restBP
  \/ \E x \in installed : BreakpointResolvedEvent(x) /\ UNCHANGED restBP
  \/ \E b \in BpIds, located \in BOOLEAN :
       RawLocationToUiLocationReturned(b, located) /\ UNCHANGED restBP
  \/ \E t \in tasks : SetFinish(t) /\ UNCHANGED restBP
  \/ \E t \in tasks : HandlerFinish(t) /\ UNCHANGED restBP

----------------------------------------------------------------------------
(* Claims about the breakpoint engine                                      *)

\* the keys of BreakpointManager._resolvedBreakpoints that map to Breakpoint b
ManagerKeysOf(b) == {p[1] : p \in {q \in managerResolved : q[2] = b}}

\* nothing of the breakpoint engine is in flight
Quiescent ==
  /\ setters = {}
  /\ tasks = {}
  /\ calls = {}
  /\ \A b \in BpIds : bps[b].removePc \in {"none", "done"} /\ ~bps[b].translating

\* C1: at every moment the runtime ids a Breakpoint holds in _resolvedBreakpoints
\* are exactly the keys of the manager's _resolvedBreakpoints that map to it.
C1_ResolvedIdsMirrorManagerIndex ==
  \A b \in BpIds : bps[b].resolvedBreakpoints = ManagerKeysOf(b)

\* a Breakpoint holds an id while another one's ids have just been unregistered
C1_Witness ==
  \E b, c \in BpIds :
    /\ bps[b].resolvedBreakpoints # {}
    /\ bps[c].removePc = "awaitCdp"
    /\ bps[c].removing # {}

\* C2: once a setBreakpoints call with an empty list has completed, every
\* Breakpoint it replaced holds no runtime id and the manager's index has no
\* key that maps to it.
C2_EmptyListLeavesNoIds ==
  \A b \in cleared : bps[b].resolvedBreakpoints = {} /\ ManagerKeysOf(b) = {}

\* C3: remove() issues no Debugger.removeBreakpoint while an install command of
\* the same Breakpoint, started before or during the remove, is unanswered; so
\* no such command leaves an id behind.
C3_RemoveAwaitsEverySetter == removedEarly = {}

\* C4 as written: between creation and remove() a Breakpoint issues at most one
\* install command per (url, line, column).
C4_OneInstallPerUrlLocation ==
  \A b \in BpIds : installs[b].repeated = {}

\* C4, as the code has it: between creation and remove() a Breakpoint issues no
\* install command for a (url, line, column) it has already issued a
\* setBreakpointByUrl for; commands by script id are not recorded, so they can
\* repeat and a setBreakpointByUrl can follow them.
C4_NoInstallAfterByUrl ==
  \A b \in BpIds :
    installs[b].repeated \subseteq {<<"script", "script">>, <<"script", "url">>}

\* a Breakpoint has asked for one location by script id and then by url
C4_Witness ==
  \E b \in BpIds :
    /\ <<"script", "url">> \in installs[b].repeated
    /\ bps[b].removePc = "none"

\* C5 as written: when the script-source-map handler of a script completes, no
\* install command of a Breakpoint listed, by path or by source reference,
\* when the script arrived is unanswered.
C5_HandlerAwaitsEveryInstall ==
  \A h \in handled : h.unanswered = {}

\* C5, as the code has it: when the script-source-map handler of a script
\* completes, it has run updateForSourceMap on every Breakpoint that was listed
\* by path or by source reference when the script arrived, and every install
\* command these updates issued has been answered; install commands that set()
\* issued for those Breakpoints may still be in flight.
C5_HandlerAwaitsItsInstalls ==
  \A h \in handled :
    /\ h.registered \subseteq h.updated
    /\ ~\E s \in setters : s.origin = h.script

\* a handler has completed after installing a Breakpoint listed by reference
\* while an install command of a Breakpoint listed by path was unanswered
C5_Witness ==
  \E h \in handled : \E b \in h.registered, c \in h.unanswered :
    /\ bps[b].src = "ref"
    /\ bps[c].src = "path"
    /\ installs[b].script # {}

\* C6: between its creation and its removal a Breakpoint that resolves emits
\* exactly one `breakpoint` changed event.
C6_ExactlyOneChangedEvent ==
  \A b \in BpIds :
    /\ events[b].listed <= 1
    /\ (bps[b].removePc = "none" /\ bps[b].resolvedUiLocation) => events[b].listed = 1

\* C7: when no command and no call is in flight, every breakpoint the runtime
\* holds is a key of the manager's index and maps to a Breakpoint that
\* _byPath or _byRef lists.
C7_QuiescentRuntimeIsListed ==
  Quiescent =>
    \A x \in installed :
      \E b \in SeqToSet(Listed) : <<x, b>> \in managerResolved

C28_NothingResolvesAfterRemove ==
  \A b \in BpIds :
    /\ events[b].removed = 0
    /\ bps[b].removePc # "none" => ~bps[b].resolvedUiLocation

\* an install command of kind `kind` that Breakpoint b issued for `key`
\* before its remove() has returned no result: it is not in flight and has
\* left no runtime id
ReturnedNoResult(b, kind, key) ==
  /\ bps[b].removePc = "none"
  /\ key \in installs[b][kind]
  /\ ~\E s \in setters : s.bp = b /\ s.kind = kind /\ s.key = key
  /\ ~\E x \in bps[b].resolvedBreakpoints : x[1] = kind /\ x[3] = key

\* the step is the runtime's answer, without result, to an install command
NoResultStep ==
  /\ setters' # setters
  /\ setters' \subseteq setters
  /\ installed' = installed

\* the step issues an install command for `key` on behalf of Breakpoint b
IssuesInstall(b, key) ==
  \E s \in setters' \ setters : s.bp = b /\ s.key = key

\* an answer without result changes neither the Breakpoint's runtime ids nor
\* its resolved location, starts no resolution, emits no event, and what
\* waited for the command waits for it no longer
NoResultChangesNothing ==
  NoResultStep =>
    /\ \A b \in BpIds :
         /\ bps'[b].resolvedBreakpoints = bps[b].resolvedBreakpoints
         /\ bps'[b].resolvedUiLocation = bps[b].resolvedUiLocation
         /\ bps'[b].translating = bps[b].translating
    /\ managerResolved' = managerResolved
    /\ events' = events
    /\ \A s \in setters \ setters' :
         /\ \A t \in tasks' : s.id \notin t.waitFor
         /\ \A b \in BpIds : s.id \notin bps'[b].removeWait

\* C34 as stated: an install command that returns no result leaves the
\* Breakpoint without a runtime id from it, unverified by it and without an
\* event, the set() that waits for it goes on, and before its remove() the
\* Breakpoint issues no install command for that (url, line, column) again.
C34_NoResultNoRetry ==
  [][/\ NoResultChangesNothing
     /\ \A b \in BpIds, kind \in {"url", "script"} :
          \A key \in installs[b][kind] :
            (ReturnedNoResult(b, kind, key) /\ bps'[b].removePc = "none")
              => ~IssuesInstall(b, key)]_vars

\* C34, amended: as above, but only a Debugger.setBreakpointByUrl that
\* returned no result is never followed, before the Breakpoint's remove(), by
\* another install command for its (url, line, column); a
\* Debugger.setBreakpoint by script id leaves no record of the triple.
C34_NoResultNoRetryByUrl ==
  [][/\ NoResultChangesNothing
     /\ \A b \in BpIds :
          \A key \in installs[b]["url"] :
            (ReturnedNoResult(b, "url", key) /\ bps'[b].removePc = "none")
              => ~IssuesInstall(b, key)]_vars

\* a Breakpoint whose setBreakpointByUrl returned no result has completed its
\* set(), resolved by another command, and has announced it
C34_Witness ==
  \E b \in BpIds : \E key \in installs[b]["url"] :
    /\ ReturnedNoResult(b, "url", key)
    /\ ~\E t \in tasks : t.bp = b
    /\ bps[b].resolvedUiLocation
    /\ bps[b].resolvedBreakpoints # {}
    /\ events[b].listed >= 1

\* the Breakpoints of the by-path and the by-reference index
Indexed == SeqToSet(index["path"].list) \cup SeqToSet(index["ref"].list)

\* the Breakpoints whose set() the step calls
SetCalledOn == {b \in BpIds : bps'[b].sets # bps[b].sets}

\* C35: while no Thread is attached nothing is sent to the runtime, set() is
\* called on no Breakpoint and setBreakpoints only stores its Breakpoints in
\* the index; setThread calls set() on exactly the Breakpoints then in the
\* two indices, once each; with a Thread attached, set() is called only by
\* setBreakpoints, on exactly the Breakpoints the call created, once each.
C35_SetOnThreadOrOnCreation ==
  /\ [](~thread =>
          /\ setters = {} /\ installed = {} /\ tasks = {}
          /\ \A b \in BpIds : bps[b].sets = 0 /\ bps[b].removePc # "awaitCdp")
  /\ [](\A b \in BpIds : bps[b].sets <= 1)
  /\ [][(~thread /\ ~thread' /\ index' # index) =>
          \E src \in {"path", "ref"} :
            /\ SeqToSet(index'[src].list) =
                 {b \in BpIds : lastBreakpointId < b /\ b <= lastBreakpointId'}
            /\ \A b \in SeqToSet(index'[src].list) : bps'[b].removePc = "none"]_vars
  /\ [][(~thread /\ thread') => SetCalledOn = Indexed]_vars
  /\ [][(thread /\ index' # index /\ calls' = calls) =>
          SetCalledOn = {b \in BpIds : lastBreakpointId < b /\ b <= lastBreakpointId'}]_vars
  /\ [][(thread /\ calls' # calls /\ calls' \subseteq calls) =>
          \E c \in calls \ calls' : SetCalledOn = SeqToSet(c.new)]_vars
  /\ [][(thread /\ SetCalledOn # {}) =>
          \/ index' # index /\ calls' = calls
          \/ calls' # calls /\ calls' \subseteq calls]_vars

\* Breakpoints stored without a Thread, by path and by reference, have had
\* set() called by setThread, and one created later by setBreakpoints
C35_Witness ==
  /\ thread
  /\ \E b \in SeqToSet(index["path"].list) : bps[b].sets = 1 /\ b <= 2
  /\ \E b \in SeqToSet(index["ref"].list) : bps[b].sets = 1
  /\ lastBreakpointId = 3

----------------------------------------------------------------------------
(* StackTrace (src/unnamed/part_001 18-124)                                *)
(*                                                                         *)
(* A Cdp.Runtime.StackTrace is written as the chain of its segments: the   *)
(* stack itself, its `parent`, the parent's parent, ...  Only the last     *)
(* segment can carry a `parentId`, since the runtime sends either the      *)
(* parent or its id.  A frame is written as its id.                        *)

NoStackTraceId == 0

\* Cdp.Runtime.StackTrace.description; "" is undefined
Descriptions == {"async function", ""}

Segments(last) ==
  [callFrames : 0 .. MaxCallFrames,
   description : Descriptions,
   parentId : IF last THEN {NoStackTraceId, 1} ELSE {NoStackTraceId}]

RuntimeStackTraces ==
  UNION {{c \in [1 .. k -> Segments(TRUE)] :
            \A i \in 1 .. (k - 1) : c[i].parentId = NoStackTraceId} :
         k \in 1 .. MaxChain}

\* new StackTrace(thread) (18-23, 62-64) next to the static counter
NewStackTrace ==
  [frames |-> << >>, names |-> << >>, frameById |-> {},
   asyncStackTraceId |-> NoStackTraceId, separators |-> {},
   fetched |-> FALSE,    \* the pending parent id has been asked for
   twice |-> FALSE,      \* the answer to a repeated request was appended
   last |-> lastFrameId]

InitST ==
  /\ lastFrameId = 0
  /\ stackTraces = << >>
  /\ loads = {}
  /\ loadLog = << >>
  /\ issueLog = {}

\* callFrame.functionName || '<anonymous>' of a call frame without a name
Anonymous == "<anonymous>"

NextFrameIdReused(last) == last

\* ++StackTrace._lastFrameId
NextFrameId(last) == last + 1

\* result._frames.push({id: ++_lastFrameId, ...}) of fromRuntime (28-32)
PushFrame(st) ==
  LET id == NextFrameId(st.last)
  IN  [st EXCEPT !.last = id, !.frames = Append(@, id),
                 !.names = Append(@, Anonymous)]

AppendFrameInFront(st, name, isAsyncSeparator) ==
  LET id == NextFrameId(st.last)
  IN  [st EXCEPT !.last = id,
                 !.frames = <<id>> \o @,
                 !.names = <<name>> \o @,
                 !.frameById = @ \cup {id},
                 !.separators = IF isAsyncSeparator THEN @ \cup {id} ELSE @]

\* StackTrace._appendFrame (120-123) of a frame with a new id
AppendFrame(st, name, isAsyncSeparator) ==
  LET id == NextFrameId(st.last)
  IN  [st EXCEPT !.last = id,
                 !.frames = Append(@, id),
                 !.names = Append(@, name),
                 !.frameById = @ \cup {id},
                 !.separators = IF isAsyncSeparator THEN @ \cup {id} ELSE @]

RECURSIVE PushFrames(_, _)
PushFrames(st, n) == IF n = 0 THEN st ELSE PushFrames(PushFrame(st), n - 1)

RECURSIVE AppendFrames(_, _)
AppendFrames(st, n) ==
  IF n = 0 THEN st ELSE AppendFrames(AppendFrame(st, Anonymous, FALSE), n - 1)

CallFramesLeftUnshifted(seg) == seg.callFrames

\* stackTrace.callFrames.length after the shift() of an 'async function'
\* chain (87-88)
CallFramesLeft(seg) ==
  IF seg.description = "async function" /\ seg.callFrames > 0
  THEN seg.callFrames - 1 ELSE seg.callFrames

\* StackTrace._appendStackTrace (83-118)
RECURSIVE AppendStackTrace(_, _)
AppendStackTrace(st, chain) ==
  IF chain = << >> THEN st
  ELSE LET seg == Head(chain)
           n == CallFramesLeft(seg)
           name == IF seg.description # "" THEN seg.description ELSE "async"
           s1 == IF n > 0 THEN AppendFrames(AppendFrame(st, name, TRUE), n)
                 ELSE st
           s2 == IF seg.parentId # NoStackTraceId
                 THEN [s1 EXCEPT !.asyncStackTraceId = seg.parentId,
                                 !.fetched = FALSE]
                 ELSE s1
       IN  AppendStackTrace(s2, Tail(chain))

\* the tail of fromRuntime / fromDebugger (34-39, 53-58)
AppendParent(st, chain) ==
  IF chain[1].parentId # NoStackTraceId
  THEN [st EXCEPT !.asyncStackTraceId = chain[1].parentId, !.fetched = FALSE]
  ELSE AppendStackTrace(st, Tail(chain))

Construct(st) ==
  /\ st.last <= MaxFrameId
  /\ stackTraces' = Append(stackTraces, [f \in DOMAIN st \ {"last"} |-> st[f]])
  /\ lastFrameId' = st.last
  /\ UNCHANGED <<loads, loadLog, issueLog>>

\* StackTrace.fromRuntime (25-41)
FromRuntime(stack) ==
  /\ Len(stackTraces) < MaxStackTraces
  /\ Construct(AppendParent(PushFrames(NewStackTrace, stack[1].callFrames), stack))

\* StackTrace.fromDebugger (43-60); frames, parent and parentId are given as
\* the chain they would form
FromDebugger(stack) ==
  /\ Len(stackTraces) < MaxStackTraces
  /\ Construct(AppendParent(AppendFrames(NewStackTrace, stack[1].callFrames), stack))

\* StackTrace.frame (79-81); 0 is undefined
Frame(t, frameId) == IF frameId \in stackTraces[t].frameById THEN frameId ELSE 0

\* StackTrace.canLoadMoreFrames (75-77)
CanLoadMoreFrames(tr) == tr.asyncStackTraceId # NoStackTraceId

ShouldLoadIgnoringLimit(tr, limit) == CanLoadMoreFrames(tr)

\* the loop condition of loadFrames (67)
ShouldLoad(tr, limit) == Len(tr.frames) < limit /\ CanLoadMoreFrames(tr)

\* what loadFrames has in front of it when it sends Debugger.getStackTrace
Seen(tr, limit) ==
  [materialized |-> Len(tr.frames), limit |-> limit,
   pending |-> tr.asyncStackTraceId # NoStackTraceId]

\* StackTrace.loadFrames (66-73) up to its first await, or to its end
LoadFrames(t, limit) ==
  /\ Len(loadLog) + Cardinality(loads) < MaxLoads
  /\ LET tr == stackTraces[t]
         call == [id |-> Len(loadLog) + Cardinality(loads) + 1, trace |-> t,
                  limit |-> limit, start |-> Seen(tr, limit), issued |-> 0,
                  furtherParentId |-> FALSE,
                  repeated |-> FALSE,  \* it asked for an id already asked for
                  returned |-> 0]      \* the length of the list it returned
     IN  IF ShouldLoad(tr, limit)
         THEN /\ loads' = loads \cup {[call EXCEPT !.issued = 1,
                                                   !.repeated = tr.fetched]}
              /\ issueLog' = issueLog \cup {Seen(tr, limit)}
              /\ stackTraces' = [stackTraces EXCEPT ![t].fetched = TRUE]
              /\ UNCHANGED loadLog
         ELSE /\ loadLog' = Append(loadLog,
                                   [call EXCEPT !.returned = Len(tr.frames)])
              /\ UNCHANGED <<loads, issueLog, stackTraces>>
  /\ UNCHANGED lastFrameId

\* Debugger.getStackTrace returns: loadFrames (68-72) runs to its next await
\* or to its end
GetStackTraceReturned(call, stack) ==
  /\ call \in loads
  /\ LET t == call.trace
         old == stackTraces[t]
         st == AppendStackTrace(
                 [old EXCEPT !.asyncStackTraceId = NoStackTraceId,
                             !.fetched = FALSE]
                   @@ [last |-> lastFrameId], stack)
         more == ShouldLoad(st, call.limit)
         tr == [f \in DOMAIN old |->
                  IF f = "twice"
                  THEN old.twice \/ (call.repeated /\ Len(st.frames) > Len(old.frames))
                  ELSE IF f = "fetched" THEN st.fetched \/ more
                  ELSE st[f]]
         now == IF call.issued = 1
                THEN [call EXCEPT !.furtherParentId =
                                     Last(stack).parentId # NoStackTraceId]
                ELSE call
     IN  /\ st.last <= MaxFrameId
         /\ stackTraces' = [stackTraces EXCEPT ![t] = tr]
         /\ lastFrameId' = st.last
         /\ IF more
            THEN /\ loads' = (loads \ {call}) \cup
                               {[now EXCEPT !.issued = Counted(@),
                                            !.repeated = st.fetched]}
                 /\ issueLog' = issueLog \cup {Seen(tr, call.limit)}
                 /\ UNCHANGED loadLog
            ELSE /\ loads' = loads \ {call}
                 /\ loadLog' = Append(loadLog,
                                      [now EXCEPT !.returned = Len(tr.frames)])
                 /\ UNCHANGED issueLog

StackTraceNext ==
  \/ \E stack \in RuntimeStackTraces : FromRuntime(stack) /\ UNCHANGED restST
  \/ \E stack \in RuntimeStackTraces : FromDebugger(stack) /\ UNCHANGED restST
  \/ \E t \in DOMAIN stackTraces, limit \in 0 .. MaxLimit :
       LoadFrames(t, limit) /\ UNCHANGED restST
  \/ \E call \in loads, stack \in RuntimeStackTraces :
       GetStackTraceReturned(call, stack) /\ UNCHANGED restST

----------------------------------------------------------------------------
(* Claims about StackTrace                                                 *)

FinishedLoads == {loadLog[i] : i \in DOMAIN loadLog}

FrameIds(t) == SeqToSet(stackTraces[t].frames)

\* C11: whichever way a StackTrace was constructed, every frame in the list
\* that loadFrames returned is returned by frame(id) for its own id.
C11_LoadedFramesFoundById ==
  \A call \in FinishedLoads :
    \A id \in FrameIds(call.trace) : Frame(call.trace, id) = id

\* the ids that a step added to some frames list
CreatedFrameIds ==
  UNION {SeqToSet(stackTraces'[t].frames) : t \in DOMAIN stackTraces'}
    \ UNION {FrameIds(t) : t \in DOMAIN stackTraces}

\* C12: frame ids are unique over all StackTraces and strictly increasing in
\* order of creation: after every step no id occurs twice, in one frames list
\* or in two, each frames list is strictly increasing, and every id a step
\* creates is larger than every id created before it.
C12_FrameIdsUniqueAndIncreasing ==
  [][/\ \A t \in DOMAIN stackTraces' :
          \A i, j \in DOMAIN stackTraces'[t].frames :
            i < j => stackTraces'[t].frames[i] < stackTraces'[t].frames[j]
     /\ \A t, u \in DOMAIN stackTraces' :
          t # u => SeqToSet(stackTraces'[t].frames)
                     \cap SeqToSet(stackTraces'[u].frames) = {}
     /\ \A id \in CreatedFrameIds : id > lastFrameId /\ id <= lastFrameId']_vars

C12_Witness ==
  /\ Len(stackTraces) = 2
  /\ \A t \in DOMAIN stackTraces : Len(stackTraces[t].frames) >= 2
  /\ \E t \in DOMAIN stackTraces : stackTraces[t].separators # {}
  /\ \E call \in FinishedLoads : call.issued >= 1

\* C13: loadFrames sends Debugger.getStackTrace only while fewer than `limit`
\* frames are materialized and a parent id is pending; a call that starts
\* with at least `limit` frames or without a pending parent id sends nothing;
\* a call that starts below the limit with a pending parent id, and whose
\* result carries no further parent id, sends exactly one.
C13_GetStackTraceOnlyWhenNeeded ==
  /\ \A seen \in issueLog : seen.materialized < seen.limit /\ seen.pending
  /\ \A call \in loads \cup FinishedLoads :
       (call.start.materialized >= call.limit \/ ~call.start.pending)
         => call.issued = 0
  /\ \A call \in FinishedLoads :
       (/\ call.start.materialized < call.limit
        /\ call.start.pending
        /\ ~call.furtherParentId) => call.issued = 1

C13_Witness ==
  \E one, none \in FinishedLoads :
    /\ one.issued = 1 /\ one.start.pending /\ ~one.furtherParentId
    /\ none.issued = 0 /\ none.start.pending
         /\ none.start.materialized >= none.limit

\* C31: when loadFrames calls on one StackTrace overlap, no deferred parent
\* id is asked for a second time (no call waits for the answer to an id that
\* an earlier call already asked for), and no async parent chain has its
\* frames appended to the frames list a second time.
C31_OverlappingLoadsFetchOnce ==
  /\ \A call \in loads : ~call.repeated
  /\ \A t \in DOMAIN stackTraces : ~stackTraces[t].twice

\* C37: every step leaves each frames list, ids and names alike, a prefix of
\* what it is afterwards, and the lists that the loadFrames calls on one
\* StackTrace returned are ever longer prefixes of its frames list, in the
\* order in which the calls returned.
C37_FramesOnlyAppended ==
  /\ [][\A t \in DOMAIN stackTraces :
          /\ Len(stackTraces[t].frames) <= Len(stackTraces'[t].frames)
          /\ \A i \in DOMAIN stackTraces[t].frames :
               /\ stackTraces'[t].frames[i] = stackTraces[t].frames[i]
               /\ stackTraces'[t].names[i] = stackTraces[t].names[i]]_vars
  /\ [](\A i, j \in DOMAIN loadLog :
          (i < j /\ loadLog[i].trace = loadLog[j].trace)
            => /\ loadLog[i].returned <= loadLog[j].returned
               /\ loadLog[j].returned <= Len(stackTraces[loadLog[j].trace].frames))

\* two loadFrames calls on a StackTrace that had frames returned, the later
\* with more frames than the earlier
C37_Witness ==
  \E i, j \in DOMAIN loadLog :
    /\ i < j
    /\ loadLog[i].trace = loadLog[j].trace
    /\ 0 < loadLog[i].returned
    /\ loadLog[i].returned < loadLog[j].returned

----------------------------------------------------------------------------
(* SourceMap (src/src/adapter/sourceMap.ts)                                *)
(*                                                                         *)
(* A JavaScript string is a sequence of one-character strings; an optional *)
(* value is << >> (undefined) or <<v>>.  Numbers stay inside the 32-bit    *)
(* range in every run, so ToInt32 of them is the number itself.            *)

Undefined == << >>

Some(v) == <<v>>

\* body(value), with the value computed once
Bind(value, body(_)) == CHOOSE result \in {body(v) : v \in {value}} : TRUE

\* a || 0
OrZero(optional) == IF optional = Undefined THEN 0 ELSE optional[1]

base64Digits ==
  <<"A", "B", "C", "D", "E", "F", "G", "H", "I", "J", "K", "L", "M",
    "N", "O", "P", "Q", "R", "S", "T", "U", "V", "W", "X", "Y", "Z",
    "a", "b", "c", "d", "e", "f", "g", "h", "i", "j", "k", "l", "m",
    "n", "o", "p", "q", "r", "s", "t", "u", "v", "w", "x", "y", "z",
    "0", "1", "2", "3", "4", "5", "6", "7", "8", "9", "+", "/">>

\* base64Map[char]
base64Map(char) ==
  IF \E i \in DOMAIN base64Digits : base64Digits[i] = char
  THEN Some((CHOOSE i \in DOMAIN base64Digits : base64Digits[i] = char) - 1)
  ELSE Undefined

VLQ_BASE_SHIFT == 5

VLQ_BASE_MASK == 31

VLQ_CONTINUATION_MASK == 32

\* digit & mask for a mask 2^k - 1 or 2^k; undefined & mask is 0
BitAnd(digit, mask) ==
  LET d == OrZero(digit)
  IN  IF mask = VLQ_BASE_MASK THEN d % 32 ELSE ((d \div 32) % 2) * 32

\* value << shift on 32-bit integers: the shift count is taken modulo 32 and
\* the result wraps into the signed range
ShiftLeft(value, shift) ==
  LET s == shift % 32
  IN  IF s = 0 THEN value
      ELSE LET low == value % (2 ^ (32 - s))
               half == 2 ^ (31 - s)
           IN  IF low >= half THEN ((low - 2 * half) * (2 ^ (s - 1))) * 2
               ELSE low * (2 ^ s)

\* StringCharIterator (218-238)
StringCharIterator(string) == [string |-> string, position |-> 0]

CharAt(string, position) ==
  IF position < Len(string) THEN string[position + 1] ELSE ""

Peek(it) == CharAt(it.string, it.position)

Advance(it) == [it EXCEPT !.position = @ + 1]

HasNext(it) == it.position < Len(it.string)

isSeparator(char) == char = "," \/ char = ";"

\* the do-while of decodeVLQ (278-282)
RECURSIVE ReadUnsigned(_, _, _)
ReadUnsigned(it, result, shift) ==
  LET digit == base64Map(Peek(it))
      sum == result + ShiftLeft(BitAnd(digit, VLQ_BASE_MASK), shift)
  IN  IF BitAnd(digit, VLQ_CONTINUATION_MASK) # 0
      THEN ReadUnsigned(Advance(it), sum, shift + VLQ_BASE_SHIFT)
      ELSE [result |-> sum, it |-> Advance(it)]

DecodeVLQWithoutSign(it) ==
  LET read == ReadUnsigned(it, 0, 0)
  IN  [value |-> read.result \div 2, it |-> read.it]

\* decodeVLQ (273-288): the value and the iterator after it
DecodeVLQ(it) ==
  LET read == ReadUnsigned(it, 0, 0)
      negative == read.result % 2
      result == read.result \div 2
  IN  [value |-> IF negative # 0 THEN 0 - result ELSE result, it |-> read.it]

\* new SourceMapEntry(...) (184-199)
SourceMapEntry(lineNumber, columnNumber, sourceUrl, sourceLineNumber, sourceColumnNumber, name) ==
  [lineNumber |-> lineNumber, columnNumber |-> columnNumber,
   sourceUrl |-> sourceUrl, sourceLineNumber |-> sourceLineNumber,
   sourceColumnNumber |-> sourceColumnNumber, name |-> name]

\* SourceMapEntry.compare (201-205)
Compare(entry1, entry2) ==
  IF entry1.lineNumber # entry2.lineNumber
  THEN entry1.lineNumber - entry2.lineNumber
  ELSE entry1.columnNumber - entry2.columnNumber

\* sourceMappingComparator (172-180)
SourceMappingComparator(a, b) ==
  IF a.sourceLineNumber # b.sourceLineNumber
  THEN OrZero(a.sourceLineNumber) - OrZero(b.sourceLineNumber)
  ELSE IF a.sourceColumnNumber # b.sourceColumnNumber
  THEN OrZero(a.sourceColumnNumber) - OrZero(b.sourceColumnNumber)
  ELSE IF a.lineNumber # b.lineNumber
  THEN a.lineNumber - b.lineNumber
  ELSE a.columnNumber - b.columnNumber

\* Array.prototype.sort (stable) with SourceMapEntry.compare
RECURSIVE InsertByCompare(_, _)
InsertByCompare(sorted, entry) ==
  IF sorted = << >> \/ Compare(Last(sorted), entry) <= 0
  THEN Append(sorted, entry)
  ELSE Append(InsertByCompare(SubSeq(sorted, 1, Len(sorted) - 1), entry),
              Last(sorted))

RECURSIVE SortByCompare(_)
SortByCompare(array) ==
  IF array = << >> THEN << >>
  ELSE Bind(SortByCompare(SubSeq(array, 1, Len(array) - 1)),
            LAMBDA sorted : InsertByCompare(sorted, Last(array)))

\* Array.prototype.sort (stable) with sourceMappingComparator
RECURSIVE InsertBySource(_, _)
InsertBySource(sorted, entry) ==
  IF sorted = << >> \/ SourceMappingComparator(Last(sorted), entry) <= 0
  THEN Append(sorted, entry)
  ELSE Append(InsertBySource(SubSeq(sorted, 1, Len(sorted) - 1), entry),
              Last(sorted))

RECURSIVE SortBySource(_)
SortBySource(array) ==
  IF array = << >> THEN << >>
  ELSE Bind(SortBySource(SubSeq(array, 1, Len(array) - 1)),
            LAMBDA sorted : InsertBySource(sorted, Last(array)))

\* array[idx] of a JavaScript array, idx from 0
At(array, idx) ==
  IF idx >= 0 /\ idx < Len(array) THEN Some(array[idx + 1])
  ELSE Undefined

\* the inner while of _parseMap (117-121)
RECURSIVE SkipLines(_)
SkipLines(st) ==
  IF Peek(st.it) = ";"
  THEN SkipLines([st EXCEPT !.lineNumber = @ + 1, !.columnNumber = 0,
                            !.it = Advance(@)])
  ELSE st

\* one mapping of _parseMap (126-146), from the column on
ParseSegment(st, map) ==
  LET column == DecodeVLQ(st.it)
      columnNumber == st.columnNumber + column.value
      sourceIndexDelta == DecodeVLQ(column.it)
      sourceIndex == st.sourceIndex + sourceIndexDelta.value
      sourceURL == IF sourceIndexDelta.value # 0
                   THEN At(map.sources, sourceIndex) ELSE st.sourceURL
      sourceLine == DecodeVLQ(sourceIndexDelta.it)
      sourceLineNumber == st.sourceLineNumber + sourceLine.value
      sourceColumn == DecodeVLQ(sourceLine.it)
      sourceColumnNumber == st.sourceColumnNumber + sourceColumn.value
      name == DecodeVLQ(sourceColumn.it)
      nameIndex == st.nameIndex + name.value
      located == [st EXCEPT !.columnNumber = columnNumber,
                            !.sourceIndex = sourceIndex,
                            !.sourceURL = sourceURL,
                            !.sourceLineNumber = sourceLineNumber,
                            !.sourceColumnNumber = sourceColumnNumber]
  IN  IF ~HasNext(column.it) \/ isSeparator(Peek(column.it))
      THEN [st EXCEPT !.it = column.it, !.columnNumber = columnNumber,
                      !.mappings = Append(@, SourceMapEntry(st.lineNumber,
                          columnNumber, Undefined, Undefined, Undefined,
                          Undefined))]
      ELSE IF ~HasNext(sourceColumn.it) \/ isSeparator(Peek(sourceColumn.it))
      THEN [located EXCEPT !.it = sourceColumn.it,
                           !.mappings = Append(@, SourceMapEntry(st.lineNumber,
                               columnNumber, sourceURL, Some(sourceLineNumber),
                               Some(sourceColumnNumber), Undefined))]
      ELSE [located EXCEPT !.it = name.it, !.nameIndex = nameIndex,
                           !.mappings = Append(@, SourceMapEntry(st.lineNumber,
                               columnNumber, sourceURL, Some(sourceLineNumber),
                               Some(sourceColumnNumber),
                               At(map.names, nameIndex)))]

\* the while (true) of _parseMap (113-147)
RECURSIVE ParseLoop(_, _)
ParseLoop(st, map) ==
  IF Peek(st.it) = ","
  THEN Bind(ParseSegment([st EXCEPT !.it = Advance(@)], map),
            LAMBDA next : ParseLoop(next, map))
  ELSE Bind(SkipLines(st),
            LAMBDA skipped :
              IF ~HasNext(skipped.it) THEN skipped.mappings
              ELSE Bind(ParseSegment(skipped, map),
                        LAMBDA next : ParseLoop(next, map)))

ParseMapUnsorted(mappings, map, lineNumber, columnNumber) ==
  ParseLoop([it |-> StringCharIterator(map.mappings),
             lineNumber |-> lineNumber, columnNumber |-> columnNumber,
             sourceIndex |-> 0, sourceLineNumber |-> 0,
             sourceColumnNumber |-> 0, nameIndex |-> 0,
             sourceURL |-> At(map.sources, 0), mappings |-> mappings], map)

\* SourceMap._parseMap (104-151): the list after the section was added
ParseMap(mappings, map, lineNumber, columnNumber) ==
  Bind(ParseLoop([it |-> StringCharIterator(map.mappings),
                  lineNumber |-> lineNumber, columnNumber |-> columnNumber,
                  sourceIndex |-> 0, sourceLineNumber |-> 0,
                  sourceColumnNumber |-> 0, nameIndex |-> 0,
                  sourceURL |-> At(map.sources, 0), mappings |-> mappings],
                 map),
       LAMBDA parsed : SortByCompare(parsed))

\* the payloads tried: mappings strings are built from these segments
SegmentStrings ==
  {<<"A">>, <<"C">>, <<"D">>, <<"E">>,
   <<"A", "A", "A", "A">>, <<"A", "A", "C", "A">>, <<"C", "A", "A", "C">>,
   <<"E", "A", "A", "E">>, <<"A", "C", "A", "A", "A">>}

SectionSegmentStrings ==
  {<<"A">>, <<"C">>, <<"A", "A", "A", "A">>, <<"C", "A", "A", "C">>,
   <<"A", "A", "C", "A">>}

Separators == {<<",">>, <<";">>}

RECURSIVE MappingsStrings(_)
MappingsStrings(segments) ==
  IF segments = 1 THEN SegmentStrings
  ELSE MappingsStrings(segments - 1) \cup
       {head \o sep \o seg : head \in MappingsStrings(segments - 1),
                             sep \in Separators, seg \in SegmentStrings}

SourceRoots == {<< >>, <<"r">>}

SourceNames == <<(<<"a">>), (<<"b">>)>>

\* SourceMapV3 (240-249) without sections
PlainMaps(strings) ==
  [sections : {Undefined}, sources : {SourceNames}, sourceRoot : SourceRoots,
   names : {<<"f">>}, mappings : strings]

Offsets == {[line |-> 0, column |-> 0], [line |-> 0, column |-> 2],
            [line |-> 1, column |-> 0]}

\* SourceMapV3Section (251-254)
Sections ==
  [offset : Offsets, url : {Undefined},
   map : {m \in PlainMaps(SectionSegmentStrings) : m.sourceRoot = << >>}]

\* sections that may carry a url, and may then come without a map
UrlSections ==
  [offset : {[line |-> 0, column |-> 0], [line |-> 1, column |-> 0]},
   url : {Undefined, Some(<<"u">>)},
   map : {m \in PlainMaps({<<"A", "A", "A", "A">>, <<"C", "A", "A", "C">>}) :
            m.sourceRoot = << >>}]
    \cup [offset : {[line |-> 0, column |-> 0]}, url : {Some(<<"u">>)},
          map : {Undefined}]

UrlPayloads ==
  [sections : {Some(list) :
                 list \in UNION {[1 .. k -> UrlSections] : k \in 1 .. MaxSections}},
   sources : {<< >>}, sourceRoot : {<< >>}, names : {<< >>}, mappings : {<< >>}]

SectionLists ==
  UNION {[1 .. k -> Sections] : k \in 1 .. MaxSections}

Payloads ==
  PlainMaps(MappingsStrings(MaxSegments)) \cup
  [sections : {Some(list) : list \in SectionLists}, sources : {<< >>},
   sourceRoot : {<< >>}, names : {<< >>}, mappings : {<< >>}]

\* the maps _forEachSection (153-161) visits, with their offsets
ForEachSection(json) ==
  IF json.sections = Undefined
  THEN <<[map |-> json, line |-> 0, column |-> 0]>>
  ELSE [i \in DOMAIN json.sections[1] |->
          [map |-> json.sections[1][i].map,
           line |-> json.sections[1][i].offset.line,
           column |-> json.sections[1][i].offset.column]]

\* the urls the constructor (46-54) gives to the sources of one map
SourceUrls(map) ==
  LET sourceRoot == IF map.sourceRoot # << >> /\ Last(map.sourceRoot) # "/"
                    THEN map.sourceRoot \o <<"/">> ELSE map.sourceRoot
  IN  [i \in DOMAIN map.sources |-> sourceRoot \o map.sources[i]]

WithSourceUrls(map) == [map EXCEPT !.sources = SourceUrls(map)]

SectionErrorsNone(payload) == << >>

\* the constructor's check of the sections (40-44): this._errors
SectionErrors(payload) ==
  IF /\ payload.sections # Undefined
     /\ \E i \in DOMAIN payload.sections[1] :
          payload.sections[1][i].url \notin {Undefined, Some(<< >>)}
  THEN <<"error.sourceMapUnsupportedSectionUrl">>
  ELSE << >>

\* the constructor's _forEachSection callback (46) reads map.sourceRoot: a
\* section without a map makes it throw a TypeError
Throws(payload) ==
  /\ payload.sections # Undefined
  /\ \E i \in DOMAIN payload.sections[1] :
       payload.sections[1][i].map = Undefined

\* new SourceMap(url, payload) (35-56); SourceInfo (208-216)
SourceMapOf(payload) ==
  LET json == IF payload.sections = Undefined THEN WithSourceUrls(payload)
              ELSE [payload EXCEPT !.sections =
                      Some([i \in DOMAIN payload.sections[1] |->
                              [payload.sections[1][i] EXCEPT
                                 !.map = WithSourceUrls(@)]])]
      visited == ForEachSection(json)
      urls == UNION {SeqToSet(visited[i].map.sources) : i \in DOMAIN visited}
  IN  [json |-> Some(json), mappings |-> Undefined,
       sourceInfos |-> [url \in urls |-> [reverseMappings |-> Undefined]],
       errors |-> SectionErrors(payload),
       payload |-> payload]   \* the constructor's argument, for reference

RECURSIVE ParseSections(_, _)
ParseSections(mappings, visited) ==
  IF visited = << >> THEN mappings
  ELSE Bind(ParseMap(mappings, Head(visited).map, Head(visited).line,
                     Head(visited).column),
            LAMBDA parsed : ParseSections(parsed, Tail(visited)))

\* SourceMap.mappings (81-89): the SourceMap after the call
WithMappings(sm) ==
  IF sm.mappings = Undefined
  THEN [sm EXCEPT !.mappings = Some(ParseSections(<< >>, ForEachSection(sm.json[1]))),
                  !.json = Undefined]
  ELSE sm

\* lowerBound (307-318) and upperBound (294-305) over the comparator's values
RECURSIVE LowerBoundLoop(_, _, _)
LowerBoundLoop(compared, l, r) ==
  IF l < r
  THEN LET m == (l + r) \div 2
       IN  IF compared[m + 1] > 0 THEN LowerBoundLoop(compared, m + 1, r)
           ELSE LowerBoundLoop(compared, l, m)
  ELSE r

RECURSIVE UpperBoundLoop(_, _, _)
UpperBoundLoop(compared, l, r) ==
  IF l < r
  THEN LET m == (l + r) \div 2
       IN  IF compared[m + 1] >= 0 THEN UpperBoundLoop(compared, m + 1, r)
           ELSE UpperBoundLoop(compared, l, m)
  ELSE r

LowerBound(compared) == LowerBoundLoop(compared, 0, Len(compared))

UpperBoundStrict(compared) == LowerBoundLoop(compared, 0, Len(compared))

UpperBound(compared) == UpperBoundLoop(compared, 0, Len(compared))

\* SourceMap.findEntry (75-79) on the list mappings() returned
FindEntryIn(mappings, lineNumber, columnNumber) ==
  LET idx == UpperBound(
        [i \in DOMAIN mappings |->
           IF lineNumber - mappings[i].lineNumber # 0
           THEN lineNumber - mappings[i].lineNumber
           ELSE columnNumber - mappings[i].columnNumber])
  IN  IF idx # 0 THEN Some(mappings[idx]) ELSE Undefined

\* SourceMap._reversedMappings (163-171): the SourceMap after the call
WithReversedMappings(sm, sourceUrl) ==
  LET FromSource(mapping) == mapping.sourceUrl = Some(sourceUrl)
      Reversed(with) ==
        IF sourceUrl \notin DOMAIN with.sourceInfos THEN with
        ELSE IF with.sourceInfos[sourceUrl].reverseMappings # Undefined
        THEN with
        ELSE [with EXCEPT !.sourceInfos[sourceUrl].reverseMappings =
                Some(SortBySource(SelectSeq(with.mappings[1], FromSource)))]
  IN  Bind(WithMappings(sm), Reversed)

\* what _reversedMappings returns once the list is built
ReversedMappings(sm, sourceUrl) ==
  IF sourceUrl \notin DOMAIN sm.sourceInfos THEN << >>
  ELSE sm.sourceInfos[sourceUrl].reverseMappings[1]

FindReverseEntryAcrossLines(mappings, lineNumber, columnNumber) ==
  LET idx == LowerBound(
        [i \in DOMAIN mappings |->
           IF lineNumber - OrZero(mappings[i].sourceLineNumber) # 0
           THEN lineNumber - OrZero(mappings[i].sourceLineNumber)
           ELSE columnNumber - OrZero(mappings[i].sourceColumnNumber)])
  IN  IF idx >= Len(mappings) THEN Undefined ELSE Some(mappings[idx + 1])

\* SourceMap.findReverseEntry (91-102) on the list _reversedMappings returned
FindReverseEntryIn(mappings, lineNumber, columnNumber) ==
  LET byLine == [i \in DOMAIN mappings |->
                   lineNumber - OrZero(mappings[i].sourceLineNumber)]
      first == LowerBound(byLine)
      last == UpperBound(byLine)
      columnMappings == SubSeq(mappings, first + 1, last)
      idx == LowerBound(
        [i \in DOMAIN columnMappings |->
           columnNumber - OrZero(columnMappings[i].sourceColumnNumber)])
  IN  IF first >= Len(mappings)
         \/ mappings[first + 1].sourceLineNumber # Some(lineNumber)
      THEN Undefined
      ELSE IF columnMappings = << >> THEN Undefined
      ELSE IF idx >= Len(columnMappings)
      THEN Some(columnMappings[Len(columnMappings)])
      ELSE Some(columnMappings[idx + 1])

NoLookup ==
  [op |-> "none", sourceUrl |-> Undefined, lineNumber |-> 0,
   columnNumber |-> 0, result |-> Undefined]

NoVLQ == [n |-> 0, string |-> << >>, value |-> 0, position |-> 0]

InitSM ==
  /\ sourceMap = Undefined
  /\ lookup = NoLookup
  /\ vlq = NoVLQ

\* new SourceMap(url, payload): the one SourceMap that is followed
NewSourceMap(payload) ==
  /\ sourceMap = Undefined
  /\ sourceMap' = IF Throws(payload) THEN Undefined
                  ELSE Some(SourceMapOf(payload))
  /\ lookup' = [NoLookup EXCEPT !.op = IF Throws(payload) THEN "threw"
                                      ELSE "none"]
  /\ UNCHANGED vlq

\* sourceMap.mappings()
Mappings ==
  /\ sourceMap # Undefined
  /\ \E sm \in {WithMappings(sourceMap[1])} : sourceMap' = Some(sm)
  /\ lookup' = [NoLookup EXCEPT !.op = "mappings"]
  /\ UNCHANGED vlq

\* sourceMap.findEntry(lineNumber, columnNumber)
FindEntry(lineNumber, columnNumber) ==
  /\ sourceMap # Undefined
  /\ \E sm \in {WithMappings(sourceMap[1])} :
         /\ sourceMap' = Some(sm)
         /\ lookup' = [op |-> "findEntry", sourceUrl |-> Undefined,
                       lineNumber |-> lineNumber, columnNumber |-> columnNumber,
                       result |-> FindEntryIn(sm.mappings[1], lineNumber,
                                              columnNumber)]
  /\ UNCHANGED vlq

\* sourceMap.findReverseEntry(sourceUrl, lineNumber, columnNumber)
FindReverseEntry(sourceUrl, lineNumber, columnNumber) ==
  /\ sourceMap # Undefined
  /\ \E sm \in {WithReversedMappings(sourceMap[1], sourceUrl)} :
         /\ sourceMap' = Some(sm)
         /\ lookup' = [op |-> "findReverseEntry", sourceUrl |-> Some(sourceUrl),
                       lineNumber |-> lineNumber, columnNumber |-> columnNumber,
                       result |-> FindReverseEntryIn(
                                    ReversedMappings(sm, sourceUrl),
                                    lineNumber, columnNumber)]
  /\ UNCHANGED vlq

QueryUrls == {<<"a">>, <<"b">>, <<"r", "/", "a">>, <<"x">>}

SourceMapNext ==
  \/ \E payload \in Payloads : NewSourceMap(payload) /\ UNCHANGED restSM
  \/ Mappings /\ UNCHANGED restSM
  \/ \E lineNumber \in 0 .. MaxQueryLine, columnNumber \in 0 .. MaxQueryColumn :
       FindEntry(lineNumber, columnNumber) /\ UNCHANGED restSM
  \/ \E sourceUrl \in QueryUrls, lineNumber \in 0 .. MaxQueryLine,
        columnNumber \in 0 .. MaxQueryColumn :
       FindReverseEntry(sourceUrl, lineNumber, columnNumber) /\ UNCHANGED restSM

\* the same SourceMap, constructed from sections that may carry a url
SectionUrlNext ==
  \/ \E payload \in UrlPayloads : NewSourceMap(payload) /\ UNCHANGED restSM
  \/ Mappings /\ UNCHANGED restSM
  \/ \E lineNumber \in 0 .. MaxQueryLine, columnNumber \in 0 .. MaxQueryColumn :
       FindEntry(lineNumber, columnNumber) /\ UNCHANGED restSM
  \/ \E sourceUrl \in QueryUrls, lineNumber \in 0 .. MaxQueryLine,
        columnNumber \in 0 .. MaxQueryColumn :
       FindReverseEntry(sourceUrl, lineNumber, columnNumber) /\ UNCHANGED restSM

----------------------------------------------------------------------------
(* Claims about SourceMap                                                  *)

\* (line, column) pairs in lexicographic order
LexLeq(line1, column1, line2, column2) ==
  line1 < line2 \/ (line1 = line2 /\ column1 <= column2)

ParsedMappings == sourceMap[1].mappings[1]

\* C14: findEntry returns the entry with the greatest generated (line,
\* column) that is at most the query, and undefined exactly when no entry is
\* at most the query.
C14_FindEntryGreatestAtMostQuery ==
  lookup.op = "findEntry" =>
    LET atMost == {e \in SeqToSet(ParsedMappings) :
                     LexLeq(e.lineNumber, e.columnNumber,
                            lookup.lineNumber, lookup.columnNumber)}
    IN  IF atMost = {} THEN lookup.result = Undefined
        ELSE /\ lookup.result # Undefined
             /\ lookup.result[1] \in atMost
             /\ \A e \in atMost :
                  LexLeq(e.lineNumber, e.columnNumber,
                         lookup.result[1].lineNumber,
                         lookup.result[1].columnNumber)

C14_Witness ==
  /\ lookup.op = "findEntry"
  /\ lookup.result # Undefined
  /\ \E e \in SeqToSet(ParsedMappings) :
       ~LexLeq(e.lineNumber, e.columnNumber,
               lookup.lineNumber, lookup.columnNumber)
  /\ <<lookup.result[1].lineNumber, lookup.result[1].columnNumber>> #
       <<lookup.lineNumber, lookup.columnNumber>>

\* the entries of the queried source
EntriesOfSource ==
  {e \in SeqToSet(ParsedMappings) : e.sourceUrl = lookup.sourceUrl}

\* C15 as stated: findReverseEntry returns the entry of the source with the
\* smallest (sourceLine, sourceColumn) at or after the query; if there is
\* none, the last entry on the queried source line.
C15_FindReverseEntrySmallestAtLeastQuery ==
  lookup.op = "findReverseEntry" =>
    LET atLeast == {e \in EntriesOfSource :
                      LexLeq(lookup.lineNumber, lookup.columnNumber,
                             e.sourceLineNumber[1], e.sourceColumnNumber[1])}
        onLine == {e \in EntriesOfSource :
                     e.sourceLineNumber = Some(lookup.lineNumber)}
    IN  IF atLeast # {}
        THEN /\ lookup.result # Undefined
             /\ lookup.result[1] \in atLeast
             /\ \A e \in atLeast :
                  LexLeq(lookup.result[1].sourceLineNumber[1],
                         lookup.result[1].sourceColumnNumber[1],
                         e.sourceLineNumber[1], e.sourceColumnNumber[1])
        ELSE IF onLine # {}
        THEN /\ lookup.result # Undefined
             /\ lookup.result[1] \in onLine
             /\ \A e \in onLine : e.sourceColumnNumber[1] <=
                                    lookup.result[1].sourceColumnNumber[1]
        ELSE lookup.result = Undefined

\* C15: findReverseEntry looks on the queried source line only: it returns
\* the entry of the source on that line with the smallest sourceColumn at or
\* after the queried column; if the line has entries but none there, the last
\* entry on the line; undefined if the source has no entry on the line.
C15_FindReverseEntryOnQueriedLine ==
  lookup.op = "findReverseEntry" =>
    LET onLine == {e \in EntriesOfSource :
                     e.sourceLineNumber = Some(lookup.lineNumber)}
        atLeast == {e \in onLine :
                      e.sourceColumnNumber[1] >= lookup.columnNumber}
    IN  IF onLine = {} THEN lookup.result = Undefined
        ELSE IF atLeast # {}
        THEN /\ lookup.result # Undefined
             /\ lookup.result[1] \in atLeast
             /\ \A e \in atLeast : lookup.result[1].sourceColumnNumber[1] <=
                                     e.sourceColumnNumber[1]
        ELSE /\ lookup.result # Undefined
             /\ lookup.result[1] \in onLine
             /\ \A e \in onLine : e.sourceColumnNumber[1] <=
                                    lookup.result[1].sourceColumnNumber[1]

C15_Witness ==
  /\ lookup.op = "findReverseEntry"
  /\ lookup.result # Undefined
  /\ lookup.result[1].sourceColumnNumber[1] < lookup.columnNumber
  /\ \E e \in EntriesOfSource : e.sourceLineNumber[1] > lookup.lineNumber

IsSorted(array, Leq(_, _)) ==
  \A i, j \in DOMAIN array : i < j => Leq(array[i], array[j])

\* C16: with or without sections, and whatever the order of the sections'
\* offsets, the list mappings() built is in non-decreasing order of
\* (generated line, generated column), and every reverse list built for a
\* source is in non-decreasing order of (source line, source column).
C16_MappingsAndReverseListsSorted ==
  sourceMap # Undefined =>
    /\ sourceMap[1].mappings # Undefined =>
         IsSorted(ParsedMappings,
                  LAMBDA a, b : LexLeq(a.lineNumber, a.columnNumber,
                                       b.lineNumber, b.columnNumber))
    /\ \A url \in DOMAIN sourceMap[1].sourceInfos :
         sourceMap[1].sourceInfos[url].reverseMappings # Undefined =>
           IsSorted(sourceMap[1].sourceInfos[url].reverseMappings[1],
                    LAMBDA a, b :
                      LexLeq(a.sourceLineNumber[1], a.sourceColumnNumber[1],
                             b.sourceLineNumber[1], b.sourceColumnNumber[1]))

C16_Witness ==
  /\ sourceMap # Undefined
  /\ sourceMap[1].payload.sections # Undefined
  /\ LET sections == sourceMap[1].payload.sections[1]
     IN  /\ Len(sections) = 2
         /\ sections[1].offset.line > sections[2].offset.line
  /\ sourceMap[1].mappings # Undefined
  /\ \E url \in DOMAIN sourceMap[1].sourceInfos :
       /\ sourceMap[1].sourceInfos[url].reverseMappings # Undefined
       /\ Len(sourceMap[1].sourceInfos[url].reverseMappings[1]) = 2

\* the payload the SourceMap was constructed from has a section with a url
HasSectionWithUrl(payload) ==
  /\ payload.sections # Undefined
  /\ \E i \in DOMAIN payload.sections[1] :
       payload.sections[1][i].url # Undefined

\* the source urls of all the sections' maps of the payload
AllSectionSourceUrls(payload) ==
  UNION {SeqToSet(SourceUrls(payload.sections[1][i].map)) :
           i \in DOMAIN payload.sections[1]}

----------------------------------------------------------------------------
(* decodeVLQ on encoded numbers                                            *)

\* the standard base64 VLQ encoding: the sign in the lowest bit, then the
\* magnitude in 5-bit groups from the lowest, each but the last with the
\* continuation bit
RECURSIVE EncodeGroups(_, _)
EncodeGroups(group, rest) ==
  IF rest = 0 THEN <<base64Digits[group + 1]>>
  ELSE <<base64Digits[group + VLQ_CONTINUATION_MASK + 1]>>
         \o EncodeGroups(rest % 32, rest \div 32)

EncodeVLQ(n) ==
  LET magnitude == IF n < 0 THEN 0 - n ELSE n
      sign == IF n < 0 THEN 1 ELSE 0
  IN  EncodeGroups((magnitude % 16) * 2 + sign, magnitude \div 16)

\* numbers of the signed 32-bit range: the small ones and those next to a
\* change of the encoding's length
VLQSamples ==
  LET edges == {2 ^ k : k \in {4, 9, 14, 19, 24, 29, 30}}
      positive == (0 .. SmallVLQ) \cup edges \cup {e - 1 : e \in edges}
                    \cup {2147483647}
  IN  positive \cup {0 - n : n \in positive}

\* what follows the encoding in the string
Followers == {<< >>, <<",">>, <<"A">>, <<"g">>}

\* decodeVLQ(new StringCharIterator(encoding of n, then follower))
DecodeEncoded(n, follower) ==
  /\ LET decoded == DecodeVLQ(StringCharIterator(EncodeVLQ(n) \o follower))
     IN  vlq' = [n |-> n, string |-> EncodeVLQ(n) \o follower,
                 value |-> decoded.value, position |-> decoded.it.position]
  /\ UNCHANGED <<sourceMap, lookup>>

VLQNext ==
  \E n \in VLQSamples, follower \in Followers :
    DecodeEncoded(n, follower) /\ UNCHANGED restSM

\* C17 as stated: for every n of the signed VLQ range, decodeVLQ of the
\* encoding of n returns n and consumes exactly the encoding's characters.
C17_DecodeReturnsEncoded ==
  vlq.string # << >> =>
    vlq.value = vlq.n /\ vlq.position = Len(EncodeVLQ(vlq.n))

\* C17: for every n with |n| < 2^30, decodeVLQ of the encoding of n returns
\* n and consumes exactly the encoding's characters.
C17_DecodeReturnsEncodedBelowShiftRange ==
  (vlq.string # << >> /\ vlq.n < 2 ^ 30 /\ 0 - vlq.n < 2 ^ 30) =>
    vlq.value = vlq.n /\ vlq.position = Len(EncodeVLQ(vlq.n))

C17_Witness ==
  /\ vlq.n = 1 - 2 ^ 30
  /\ vlq.value = vlq.n
  /\ Len(vlq.string) = 8
  /\ vlq.position = 7

----------------------------------------------------------------------------
(* BrowserSourcePathResolver (src/src/browser/browserDelegate.ts 168-258)  *)
(*                                                                         *)
(* Strings are sequences of characters.  path is Node's posix path module  *)
(* and URL the WHATWG URL class, written out for the characters that the   *)
(* paths tried here are made of: letters, '.', '/' and the space.          *)

StartsWith(string, prefix) ==
  Len(prefix) <= Len(string) /\ SubSeq(string, 1, Len(prefix)) = prefix

EndsWith(string, suffix) ==
  Len(suffix) <= Len(string)
    /\ SubSeq(string, Len(string) - Len(suffix) + 1, Len(string)) = suffix

\* string.substring(start)
Substring(string, start) == SubSeq(string, start + 1, Len(string))

\* string.split('/')
RECURSIVE Split(_)
Split(string) ==
  IF \A i \in DOMAIN string : string[i] # "/" THEN <<string>>
  ELSE LET slash == CHOOSE i \in DOMAIN string :
                      string[i] = "/" /\ \A j \in 1 .. (i - 1) : string[j] # "/"
       IN  <<SubSeq(string, 1, slash - 1)>> \o Split(Substring(string, slash))

\* segments.join('/')
RECURSIVE JoinSegments(_)
JoinSegments(segments) ==
  IF segments = << >> THEN << >>
  ELSE IF Len(segments) = 1 THEN segments[1]
  ELSE segments[1] \o <<"/">> \o JoinSegments(Tail(segments))

DotDot == <<".", ".">>

\* the segments left after '.', '' and '..' are resolved; a '..' that has
\* nothing to remove is dropped when allowAboveRoot is FALSE and kept otherwise
RECURSIVE NormalizeSegments(_, _, _)
NormalizeSegments(done, segments, allowAboveRoot) ==
  IF segments = << >> THEN done
  ELSE LET segment == Head(segments)
           rest == Tail(segments)
       IN  IF segment = << >> \/ segment = <<".">>
           THEN NormalizeSegments(done, rest, allowAboveRoot)
           ELSE IF segment = DotDot
           THEN IF done # << >> /\ Last(done) # DotDot
                THEN NormalizeSegments(SubSeq(done, 1, Len(done) - 1), rest,
                                       allowAboveRoot)
                ELSE IF allowAboveRoot
                THEN NormalizeSegments(Append(done, segment), rest,
                                       allowAboveRoot)
                ELSE NormalizeSegments(done, rest, allowAboveRoot)
           ELSE NormalizeSegments(Append(done, segment), rest, allowAboveRoot)

\* path.normalize
PathNormalize(path) ==
  IF path = << >> THEN <<".">>
  ELSE LET isAbsolute == path[1] = "/"
           trailingSeparator == Last(path) = "/"
           normalized == JoinSegments(
                           NormalizeSegments(<< >>, Split(path), ~isAbsolute))
           ended == IF normalized # << >> /\ trailingSeparator
                    THEN normalized \o <<"/">> ELSE normalized
       IN  IF isAbsolute THEN <<"/">> \o ended
           ELSE IF normalized = << >>
           THEN (IF trailingSeparator THEN <<".", "/">> ELSE <<".">>)
           ELSE ended

\* the segments of path.resolve(path) for an absolute path
Resolved(path) == NormalizeSegments(<< >>, Split(path), FALSE)

RECURSIVE CommonLength(_, _)
CommonLength(a, b) ==
  IF a # << >> /\ b # << >> /\ Head(a) = Head(b)
  THEN 1 + CommonLength(Tail(a), Tail(b)) ELSE 0

\* path.relative(from, to) of two absolute paths
PathRelative(from, to) ==
  LET fromSegments == Resolved(from)
      toSegments == Resolved(to)
      common == CommonLength(fromSegments, toSegments)
  IN  JoinSegments([i \in 1 .. (Len(fromSegments) - common) |-> DotDot]
                     \o SubSeq(toSegments, common + 1, Len(toSegments)))

\* path.join(a, b)
PathJoin(a, b) ==
  IF b = << >> THEN PathNormalize(a)
  ELSE IF a = << >> THEN PathNormalize(b)
  ELSE PathNormalize(a \o <<"/">> \o b)

\* the percent-encoding of the URL path: the space becomes %20
RECURSIVE PercentEncode(_)
PercentEncode(string) ==
  IF string = << >> THEN << >>
  ELSE (IF Head(string) = " " THEN <<"%", "2", "0">> ELSE <<Head(string)>>)
         \o PercentEncode(Tail(string))

\* the path of new URL(relative, base) for a base whose pathname is '/'
UrlPath(relative) ==
  LET segments == Split(relative)
      resolved == NormalizeSegments(<< >>, segments, FALSE)
      directory == relative # << >>
                     /\ (Last(segments) = <<".">> \/ Last(segments) = DotDot
                           \/ Last(segments) = << >>)
      joined == JoinSegments(resolved)
  IN  <<"/">> \o PercentEncode(IF directory /\ joined # << >>
                               THEN joined \o <<"/">> ELSE joined)

\* the origin of the page: http://h
BaseOrigin == <<"h", "t", "t", "p", ":", "/", "/", "h">>

\* this._baseUrl (179-184): origin and pathname of the launch url
BaseUrl == [origin |-> BaseOrigin, pathname |-> <<"/">>]

\* new URL(relative, this._baseUrl).toString()
UrlToString(relative) == BaseUrl.origin \o UrlPath(relative)

FileScheme == <<"f", "i", "l", "e", ":", "/", "/">>

WebpackScheme == <<"w", "e", "b", "p", "a", "c", "k", ":", "/", "/", "/">>

\* new URL(url): origin and pathname; the origin of a scheme that is not
\* http is the string null
ParseUrl(url) ==
  IF StartsWith(url, BaseOrigin \o <<"/">>)
  THEN [origin |-> BaseOrigin, pathname |-> Substring(url, Len(BaseOrigin))]
  ELSE [origin |-> <<"n", "u", "l", "l">>, pathname |-> << >>]

\* utils.absolutePathToFileUrl
AbsolutePathToFileUrl(absolutePath) == FileScheme \o PercentEncode(absolutePath)

RECURSIVE PercentDecode(_)
PercentDecode(string) ==
  IF string = << >> THEN << >>
  ELSE IF StartsWith(string, <<"%", "2", "0">>)
  THEN <<" ">> \o PercentDecode(Substring(string, 3))
  ELSE <<Head(string)>> \o PercentDecode(Tail(string))

\* utils.fileUrlToAbsolutePath: undefined for a url that is not a file url
FileUrlToAbsolutePath(url) ==
  IF StartsWith(url, FileScheme)
  THEN Some(PercentDecode(Substring(url, Len(FileScheme))))
  ELSE Undefined

NodeModules == <<"n", "o", "d", "e", "_", "m", "o", "d", "u", "l", "e", "s">>

\* the resolver built for a webRoot (175-200): _basePath and _rules
Resolver(webRoot) ==
  LET basePath == PathNormalize(webRoot)
  IN  [basePath |-> basePath,
       rules |->
         <<[urlPrefix |-> WebpackScheme \o <<".", "/", "~", "/">>,
            pathPrefix |-> basePath \o <<"/">> \o NodeModules \o <<"/">>],
           [urlPrefix |-> WebpackScheme \o <<".", "/">>,
            pathPrefix |-> basePath \o <<"/">>],
           [urlPrefix |-> WebpackScheme \o <<"s", "r", "c", "/">>,
            pathPrefix |-> basePath \o <<"/">>],
           [urlPrefix |-> WebpackScheme, pathPrefix |-> <<"/">>]>>]

\* BrowserSourcePathResolver.absolutePathToUrl (211-220)
ResolverAbsolutePathToUrl(resolver, path) ==
  LET absolutePath == PathNormalize(path)
  IN  IF ~StartsWith(absolutePath, resolver.basePath)
      THEN Some(AbsolutePathToFileUrl(absolutePath))
      ELSE Some(UrlToString(PathRelative(resolver.basePath, absolutePath)))

\* the first rule whose urlPrefix the url starts with (227-228); 0 if none
MatchingRule(resolver, url) ==
  IF \E i \in DOMAIN resolver.rules : StartsWith(url, resolver.rules[i].urlPrefix)
  THEN CHOOSE i \in DOMAIN resolver.rules :
         /\ StartsWith(url, resolver.rules[i].urlPrefix)
         /\ \A j \in 1 .. (i - 1) : ~StartsWith(url, resolver.rules[j].urlPrefix)
  ELSE 0

\* BrowserSourcePathResolver.urlToAbsolutePath (222-251)
ResolverUrlToAbsolutePath(resolver, url) ==
  LET absolutePath == FileUrlToAbsolutePath(url)
      rule == MatchingRule(resolver, url)
      u == ParseUrl(url)
      pathname == PathNormalize(u.pathname)
      normalizedBase == PathNormalize(BaseUrl.pathname)
      basepath == IF ~EndsWith(normalizedBase, <<"/">>)
                  THEN normalizedBase \o <<"/">> ELSE normalizedBase
      relative == IF basepath = pathname THEN << >>
                  ELSE PathNormalize(PathRelative(basepath, pathname))
  IN  IF absolutePath # Undefined /\ absolutePath[1] # << >>
      THEN absolutePath[1]
      ELSE IF rule # 0
      THEN resolver.rules[rule].pathPrefix
             \o Substring(url, Len(resolver.rules[rule].pathPrefix))
      ELSE IF u.origin # BaseUrl.origin THEN << >>
      ELSE IF ~StartsWith(pathname, basepath) THEN << >>
      ELSE PathJoin(resolver.basePath,
                    IF relative = << >> \/ relative = <<"/">>
                    THEN <<"i", "n", "d", "e", "x", ".", "h", "t", "m", "l">>
                    ELSE relative)

NoResolution ==
  [op |-> "none", webRoot |-> << >>, absolutePath |-> << >>,
   url |-> Undefined, result |-> Undefined]

InitPR == resolution = NoResolution

\* the webRoot of the launch configuration
WebRoots == {<<"/", "w">>, <<"/", "w", "/">>, <<"/", "w", "/", "s">>}

\* names of files and directories
PathNames == {<<"w">>, <<"w", "b">>, <<"s">>, <<"a">>, <<"a", " ", "b">>}

RECURSIVE AbsolutePaths(_)
AbsolutePaths(depth) ==
  IF depth = 0 THEN {<< >>}
  ELSE AbsolutePaths(depth - 1) \cup
       {path \o <<"/">> \o name : path \in AbsolutePaths(depth - 1),
                                  name \in PathNames}

\* the absolute paths tried: '/', and names joined by '/' after a leading '/'
PathsTried ==
  {<<"/">>} \cup (AbsolutePaths(MaxPathDepth) \ {<< >>})
    \cup {path \o <<"/">> : path \in AbsolutePaths(1) \ {<< >>}}

WebpackTails ==
  {<< >>, <<"a">>, <<"~", "/", "a">>, <<"s", "r", "c", "/", "a">>,
   <<".", "/", "~", "/", "a">>, <<".", "/", "a", "/", "b">>}

UrlsTried ==
  {WebpackScheme \o tail : tail \in WebpackTails}
    \cup {BaseOrigin \o <<"/">>, BaseOrigin \o <<"/", "a">>,
          FileScheme \o <<"/", "a">>}

\* resolver.absolutePathToUrl(absolutePath)
CallAbsolutePathToUrl(webRoot, absolutePath) ==
  resolution' = [op |-> "absolutePathToUrl", webRoot |-> webRoot,
                 absolutePath |-> absolutePath,
                 url |-> ResolverAbsolutePathToUrl(Resolver(webRoot),
                                                   absolutePath),
                 result |-> Undefined]

\* resolver.urlToAbsolutePath(url) of the url that absolutePathToUrl returned
CallUrlToAbsolutePathOfUrl ==
  /\ resolution.op = "absolutePathToUrl"
  /\ resolution.url # Undefined
  /\ resolution' =
       [resolution EXCEPT
          !.op = "roundTrip",
          !.result = Some(ResolverUrlToAbsolutePath(
                            Resolver(resolution.webRoot), resolution.url[1]))]

\* resolver.urlToAbsolutePath(url)
CallUrlToAbsolutePath(webRoot, url) ==
  resolution' = [op |-> "urlToAbsolutePath", webRoot |-> webRoot,
                 absolutePath |-> << >>, url |-> Some(url),
                 result |-> Some(ResolverUrlToAbsolutePath(Resolver(webRoot),
                                                           url))]

PathResolverNext ==
  \/ \E webRoot \in WebRoots, absolutePath \in PathsTried :
       CallAbsolutePathToUrl(webRoot, absolutePath) /\ UNCHANGED restPR
  \/ CallUrlToAbsolutePathOfUrl /\ UNCHANGED restPR
  \/ \E webRoot \in WebRoots, url \in UrlsTried :
       CallUrlToAbsolutePath(webRoot, url) /\ UNCHANGED restPR

----------------------------------------------------------------------------
(* Claims about BrowserSourcePathResolver                                  *)

\* C18: for every absolute path p whose string starts with the webRoot
\* string (webRoot itself included), urlToAbsolutePath(absolutePathToUrl(p))
\* is p.
C18_PathRoundTrip ==
  (/\ resolution.op = "roundTrip"
   /\ StartsWith(resolution.absolutePath,
                 Resolver(resolution.webRoot).basePath))
    => resolution.result = Some(resolution.absolutePath)

\* C19: for a url that starts with a webpack prefix, urlToAbsolutePath
\* returns the path prefix of the first rule that matches, followed by the
\* url after the matched url prefix.
C19_WebpackPrefixReplaced ==
  (/\ resolution.op = "urlToAbsolutePath"
   /\ MatchingRule(Resolver(resolution.webRoot), resolution.url[1]) # 0)
    => LET rule == Resolver(resolution.webRoot).rules[
                     MatchingRule(Resolver(resolution.webRoot),
                                  resolution.url[1])]
       IN  resolution.result =
             Some(rule.pathPrefix
                    \o Substring(resolution.url[1], Len(rule.urlPrefix)))

----------------------------------------------------------------------------
(* evaluate and variables (the DebugAdapter's variable store, as the       *)
(* specification describes it; exercised by src/src/test/evaluate)         *)

\* the objects the expressions tried evaluate to
Shapes == {"foo", "nested", "empty"}

Scalar(type, description) ==
  [type |-> type, description |-> description, shape |-> "none"]

Object(shape) == [type |-> "object", description |-> "Object", shape |-> shape]

\* 42, '42', ({foo: 42}), ({bar: ({foo: 42}), n: 17}), ({})
RemoteValues ==
  {Scalar("number", "42"), Scalar("string", "'42'")}
    \cup {Object(shape) : shape \in Shapes}

\* the object's own properties, in the runtime's order
OwnProperties(shape) ==
  CASE shape = "foo" -> <<[name |-> "foo", value |-> Scalar("number", "42")]>>
    [] shape = "nested" -> <<[name |-> "bar", value |-> Object("foo")],
                            [name |-> "n", value |-> Scalar("number", "17")]>>
    [] OTHER -> << >>

\* what the object inherits from Object.prototype
InheritedProperties(shape) ==
  <<[name |-> "toString", value |-> Scalar("function", "f toString()")]>>

\* Runtime.getProperties({objectId, ownProperties})
GetProperties(shape, ownProperties) ==
  IF ownProperties THEN OwnProperties(shape)
  ELSE OwnProperties(shape) \o InheritedProperties(shape)

NoReply ==
  [command |-> "none", value |-> Scalar("undefined", "undefined"),
   variablesReference |-> 0, variables |-> << >>]

InitVS ==
  /\ variableStore = [handles |-> << >>, evaluated |-> {}]
  /\ reply = NoReply

NeedsReferenceAlways(value) == TRUE

\* a variables_reference is given to objects; 0 means leaf
NeedsReference(value) == value.type = "object"

\* the variables of a list of properties, references given from `last` on
RECURSIVE ToVariables(_, _)
ToVariables(properties, last) ==
  IF properties = << >> THEN << >>
  ELSE LET property == Head(properties)
           reference == IF NeedsReference(property.value) THEN last + 1 ELSE 0
       IN  <<[name |-> property.name,
              value |-> property.value.description,
              variablesReference |-> reference,
              shape |-> property.value.shape]>>
             \o ToVariables(Tail(properties),
                            IF reference # 0 THEN reference ELSE last)

\* the handles of the object-valued variables of a reply
NewHandles(variables) ==
  LET IsObject(variable) == variable.variablesReference # 0
      objects == SelectSeq(variables, IsObject)
  IN  [i \in DOMAIN objects |-> objects[i].shape]

\* DAP evaluate of an expression with the given value
Evaluate(value) ==
  /\ Len(variableStore.handles) < MaxReferences
  /\ LET reference == IF NeedsReference(value)
                      THEN Len(variableStore.handles) + 1 ELSE 0
     IN  /\ reply' = [command |-> "evaluate", value |-> value,
                      variablesReference |-> reference, variables |-> << >>]
         /\ variableStore' =
              IF reference = 0 THEN variableStore
              ELSE [handles |-> Append(variableStore.handles, value.shape),
                    evaluated |-> variableStore.evaluated
                                    \cup {<<reference, value.shape>>}]

\* DAP variables of a reference
Variables(variablesReference) ==
  LET known == variablesReference \in DOMAIN variableStore.handles
      variables ==
        IF known
        THEN ToVariables(GetProperties(variableStore.handles[variablesReference],
                                       TRUE),
                         Len(variableStore.handles))
        ELSE << >>
  IN  /\ Len(variableStore.handles) + Len(NewHandles(variables)) <= MaxReferences
      /\ reply' = [command |-> "variables",
                   value |-> Scalar("undefined", "undefined"),
                   variablesReference |-> variablesReference,
                   variables |-> variables]
      /\ variableStore' = [variableStore EXCEPT
                             !.handles = @ \o NewHandles(variables)]

VariablesNext ==
  \/ \E value \in RemoteValues : Evaluate(value) /\ UNCHANGED restVS
  \/ \E variablesReference \in 0 .. MaxReferences :
       Variables(variablesReference) /\ UNCHANGED restVS

\* C20: evaluate of a number or a string answers variablesReference 0;
\* evaluate of an object answers a non-zero variablesReference, and the
\* variables request for a reference that evaluate answered returns exactly
\* the own properties of the object evaluated (for ({foo: 42}): foo, 42).
C20_EvaluateScalarsAndObjects ==
  /\ reply.command = "evaluate" =>
       /\ reply.value.type \in {"number", "string"} =>
            reply.variablesReference = 0
       /\ reply.value.type = "object" =>
            /\ reply.variablesReference # 0
            /\ <<reply.variablesReference, reply.value.shape>>
                 \in variableStore.evaluated
  /\ reply.command = "variables" =>
       \A pair \in variableStore.evaluated :
         pair[1] = reply.variablesReference =>
           [i \in DOMAIN reply.variables |->
              <<reply.variables[i].name, reply.variables[i].value>>]
             = [i \in DOMAIN OwnProperties(pair[2]) |->
                  <<OwnProperties(pair[2])[i].name,
                    OwnProperties(pair[2])[i].value.description>>]

C20_Witness ==
  /\ reply.command = "variables"
  /\ <<reply.variablesReference, "foo">> \in variableStore.evaluated
  /\ Len(reply.variables) = 1
  /\ reply.variables[1].name = "foo"
  /\ reply.variables[1].value = "42"
  /\ reply.variables[1].variablesReference = 0

----------------------------------------------------------------------------
(* setVariable (the DebugAdapter's variable store over objects that change, *)
(* as the specification describes it; exercised by the setVariable test of  *)
(* src/src/test/evaluate)                                                   *)

RemoteScalar(type, description) ==
  [type |-> type, description |-> description, objectId |-> 0]

RemoteObject(objectId) ==
  [type |-> "object", description |-> "Object", objectId |-> objectId]

\* the expressions tried: what Runtime.evaluate makes of each, either the
\* properties of a new object, a scalar, or exceptionDetails
Expressions ==
  {[text |-> "window.x = ({foo: 42}); x", outcome |-> "object",
    properties |-> <<[name |-> "foo", value |-> RemoteScalar("number", "42")]>>,
    scalar |-> RemoteScalar("undefined", "undefined"), description |-> ""],
   [text |-> "{bar: 17}", outcome |-> "object",
    properties |-> <<[name |-> "bar", value |-> RemoteScalar("number", "17")]>>,
    scalar |-> RemoteScalar("undefined", "undefined"), description |-> ""],
   [text |-> "17", outcome |-> "scalar", properties |-> << >>,
    scalar |-> RemoteScalar("number", "17"), description |-> ""],
   [text |-> "baz", outcome |-> "exception", properties |-> << >>,
    scalar |-> RemoteScalar("undefined", "undefined"),
    description |-> "ReferenceError: baz is not defined"]}

PropertyNames == {"foo", "bar"}

NoResponse ==
  [command |-> "none", success |-> TRUE, message |-> "",
   variablesReference |-> 0, name |-> "", value |-> RemoteScalar("undefined", "undefined"),
   variablesReferenceOfValue |-> 0, variables |-> << >>]

InitSV ==
  /\ remoteObjects = << >>
  /\ references = << >>
  /\ assigned = {}
  /\ response = NoResponse

\* Runtime.evaluate({expression, returnByValue: false}): the objects after
\* it and its result
RuntimeEvaluate(expression) ==
  IF expression.outcome = "object"
  THEN [objects |-> Append(remoteObjects, expression.properties),
        result |-> RemoteObject(Len(remoteObjects) + 1)]
  ELSE [objects |-> remoteObjects, result |-> expression.scalar]

\* the reference given to a value, and the store after giving it
Referenced(store, value) ==
  IF value.type = "object"
  THEN [store |-> Append(store, value.objectId), reference |-> Len(store) + 1]
  ELSE [store |-> store, reference |-> 0]

\* the position of the property of that name, 0 if there is none
RECURSIVE PropertyIndex(_, _)
PropertyIndex(properties, name) ==
  IF properties = << >> THEN 0
  ELSE IF properties[Len(properties)].name = name THEN Len(properties)
  ELSE PropertyIndex(SubSeq(properties, 1, Len(properties) - 1), name)

AssignKeepingOld(properties, name, value) ==
  IF PropertyIndex(properties, name) = 0
  THEN Append(properties, [name |-> name, value |-> value])
  ELSE properties

\* Runtime.callFunctionOn of the setter function: this[name] = value
Assign(properties, name, value) ==
  IF PropertyIndex(properties, name) = 0
  THEN Append(properties, [name |-> name, value |-> value])
  ELSE [properties EXCEPT ![PropertyIndex(properties, name)].value = value]

\* DAP evaluate
EvaluateExpression(expression) ==
  /\ Len(remoteObjects) < MaxObjects
  /\ Len(references) < MaxContainers
  /\ \E evaluated \in {RuntimeEvaluate(expression)} :
     \E given \in {Referenced(references, evaluated.result)} :
       /\ remoteObjects' = evaluated.objects
       /\ references' = IF expression.outcome = "exception" THEN references
                        ELSE given.store
       /\ response' =
            IF expression.outcome = "exception"
            THEN [NoResponse EXCEPT !.command = "evaluate", !.success = FALSE,
                                    !.message = expression.description]
            ELSE [NoResponse EXCEPT !.command = "evaluate",
                                    !.value = evaluated.result,
                                    !.variablesReferenceOfValue = given.reference]
       /\ UNCHANGED assigned

\* the variables of a list of properties, references given after `store`
RECURSIVE PropertiesToVariables(_, _)
PropertiesToVariables(properties, store) ==
  IF properties = << >> THEN [store |-> store, variables |-> << >>]
  ELSE LET given == Referenced(store, Head(properties).value)
           rest == PropertiesToVariables(Tail(properties), given.store)
       IN  [store |-> rest.store,
            variables |-> <<[name |-> Head(properties).name,
                             value |-> Head(properties).value.description,
                             variablesReference |-> given.reference]>>
                            \o rest.variables]

\* DAP variables of an object container
VariablesOfContainer(variablesReference) ==
  /\ variablesReference \in DOMAIN references
  /\ \E listed \in {PropertiesToVariables(
                      remoteObjects[references[variablesReference]],
                      references)} :
       /\ Len(listed.store) <= MaxContainers
       /\ references' = listed.store
       /\ response' = [NoResponse EXCEPT
                         !.command = "variables",
                         !.variablesReference = variablesReference,
                         !.variables = listed.variables]
  /\ UNCHANGED <<remoteObjects, assigned>>

\* DAP setVariable on an object container
SetVariable(variablesReference, name, expression) ==
  /\ variablesReference \in DOMAIN references
  /\ Len(remoteObjects) < MaxObjects
  /\ Len(references) < MaxContainers
  /\ \E evaluated \in {RuntimeEvaluate(expression)} :
     \E given \in {Referenced(references, evaluated.result)} :
     \E parent \in {references[variablesReference]} :
       IF expression.outcome = "exception"
       THEN /\ response' = [NoResponse EXCEPT
                              !.command = "setVariable", !.success = FALSE,
                              !.message = expression.description,
                              !.variablesReference = variablesReference,
                              !.name = name]
            /\ UNCHANGED <<remoteObjects, references, assigned>>
       ELSE /\ remoteObjects' =
                 [evaluated.objects EXCEPT
                    ![parent] = Assign(@, name, evaluated.result)]
            /\ references' = given.store
            /\ assigned' =
                 {a \in assigned : ~(a.objectId = parent /\ a.name = name)}
                   \cup {[objectId |-> parent, name |-> name,
                          value |-> evaluated.result]}
            /\ response' = [NoResponse EXCEPT
                              !.command = "setVariable",
                              !.variablesReference = variablesReference,
                              !.name = name,
                              !.value = evaluated.result,
                              !.variablesReferenceOfValue = given.reference]

SetVariableNext ==
  \/ \E expression \in Expressions :
       EvaluateExpression(expression) /\ UNCHANGED restSV
  \/ \E variablesReference \in 1 .. MaxContainers :
       VariablesOfContainer(variablesReference) /\ UNCHANGED restSV
  \/ \E variablesReference \in 1 .. MaxContainers, name \in PropertyNames,
        expression \in Expressions :
       SetVariable(variablesReference, name, expression) /\ UNCHANGED restSV

\* the value the object's property of that name holds
PropertyValue(objectId, name) ==
  remoteObjects[objectId][PropertyIndex(remoteObjects[objectId], name)].value

\* the variable of that name in the last variables response
ShownAs(name, description) ==
  /\ \E i \in DOMAIN response.variables :
       /\ response.variables[i].name = name
       /\ response.variables[i].value = description
  /\ Cardinality({i \in DOMAIN response.variables :
                    response.variables[i].name = name}) = 1

\* C21: a setVariable on an object container whose value expression
\* evaluates leaves the named property holding the new value and answers,
\* for an object value, a new variablesReference that resolves to the new
\* object; a variables request on the parent reference shows the value last
\* set for a name; a setVariable whose expression throws answers an error
\* with the runtime's description and changes no object.
C21_SetVariableReplacesOrFails ==
  /\ [](/\ (response.command = "setVariable" /\ response.success) =>
             /\ PropertyIndex(remoteObjects[references[response.variablesReference]],
                              response.name) # 0
             /\ PropertyValue(references[response.variablesReference],
                              response.name) = response.value
             /\ response.value.type = "object" =>
                  /\ response.variablesReferenceOfValue = Len(references)
                  /\ response.variablesReferenceOfValue
                       # response.variablesReference
                  /\ references[response.variablesReferenceOfValue]
                       = response.value.objectId
        /\ response.command = "variables" =>
             \A a \in assigned :
               a.objectId = references[response.variablesReference] =>
                 ShownAs(a.name, a.value.description)
        /\ (response.command = "setVariable" /\ ~response.success) =>
             response.message \in {e.description : e \in Expressions} \ {""})
  /\ [][(response'.command = "setVariable" /\ ~response'.success)
          => UNCHANGED <<remoteObjects, references>>]_vars

\* S2: foo of the parent was set to {bar: 17}; variables of the parent shows
\* foo: Object
C21_Witness ==
  /\ response.command = "variables"
  /\ \E a \in assigned :
       /\ a.objectId = references[response.variablesReference]
       /\ a.name = "foo"
       /\ a.value.type = "object"
       /\ remoteObjects[a.value.objectId]
            = <<[name |-> "bar", value |-> RemoteScalar("number", "17")]>>
  /\ ShownAs("foo", "Object")

----------------------------------------------------------------------------
(* Breakpoint conditions and log points (src/unnamed/part_002 35-51, 490)  *)

kLogPointUrl == "logpoint.cdp"

\* a log message is text with {expressions} in it, kept as its pieces
LogMessages ==
  {Undefined, Some(<< >>),
   Some(<<[expression |-> FALSE, text |-> "hit"]>>),
   Some(<<[expression |-> FALSE, text |-> "x = "],
          [expression |-> TRUE, text |-> "x"]>>)}

Conditions == {Undefined, Some(""), Some("x > 1"), Some("a || b")}

\* the format string of the message: an expression becomes %O
RECURSIVE Format(_)
Format(pieces) ==
  IF pieces = << >> THEN ""
  ELSE (IF Head(pieces).expression THEN "%O" ELSE Head(pieces).text)
         \o Format(Tail(pieces))

\* the expressions of the message, as further arguments
RECURSIVE Arguments(_)
Arguments(pieces) ==
  IF pieces = << >> THEN ""
  ELSE (IF Head(pieces).expression THEN ", " \o Head(pieces).text ELSE "")
         \o Arguments(Tail(pieces))

\* rewriteLogPoint of common/sourceUtils: console.log(<interpolated>)
rewriteLogPoint(pieces) ==
  "console.log('" \o Format(pieces) \o "'" \o Arguments(pieces) \o ")"

\* `params.condition` as an if-condition: given and not the empty string
Truthy(param) == param # Undefined /\ param[1] # ""

\* `params.logMessage` as an if-condition: given and not the empty string
TruthyMessage(param) == param # Undefined /\ param[1] # << >>

\* rewriteLogPoint(params.logMessage) + '\n//# sourceURL=' + kLogPointUrl
LogExpression(logMessage) ==
  rewriteLogPoint(logMessage[1]) \o "\n//# sourceURL=" \o kLogPointUrl

ConditionWithoutParentheses(logMessage, condition) ==
  LET logExpr == IF TruthyMessage(logMessage) THEN Some(LogExpression(logMessage))
                 ELSE Undefined
  IN  IF Truthy(condition)
      THEN IF logExpr # Undefined
           THEN Some(condition[1] \o " && " \o logExpr[1])
           ELSE condition
      ELSE logExpr

\* Breakpoint constructor, lines 45-50: this._condition
Condition(logMessage, condition) ==
  LET logExpr == IF TruthyMessage(logMessage) THEN Some(LogExpression(logMessage))
                 ELSE Undefined
  IN  IF Truthy(condition)
      THEN IF logExpr # Undefined
           THEN Some("(" \o condition[1] \o ") && " \o logExpr[1])
           ELSE condition
      ELSE logExpr

InitLP ==
  /\ logPoints = << >>
  /\ sentConditions = {}

\* new Breakpoint(manager, dapId, source, params)
NewBreakpoint(logMessage, condition) ==
  /\ Len(logPoints) < MaxLogPoints
  /\ logPoints' = Append(logPoints,
                         [logMessage |-> logMessage, condition |-> condition,
                          _condition |-> Condition(logMessage, condition)])
  /\ UNCHANGED sentConditions

\* _setByUrl / _setByScriptId: `condition: this._condition` of
\* Debugger.setBreakpointByUrl / Debugger.setBreakpoint
SendCondition(i) ==
  /\ i \in DOMAIN logPoints
  /\ sentConditions' = sentConditions \cup {<<i, logPoints[i]._condition>>}
  /\ UNCHANGED logPoints

LogPointNext ==
  \/ \E logMessage \in LogMessages, condition \in Conditions :
       NewBreakpoint(logMessage, condition) /\ UNCHANGED restLP
  \/ \E i \in 1 .. MaxLogPoints : SendCondition(i) /\ UNCHANGED restLP

\* C23 as stated: the condition sent for a breakpoint with a logMessage and
\* a condition is (condition) && (logExpr), logExpr being the rewritten
\* message followed by the sourceURL suffix; with a logMessage only it is
\* logExpr, with a condition only the condition.
C23_ConditionAndLogExprParenthesised ==
  \A s \in sentConditions :
    LET b == logPoints[s[1]]
    IN  /\ (TruthyMessage(b.logMessage) /\ Truthy(b.condition)) =>
             s[2] = Some("(" \o b.condition[1] \o ") && ("
                           \o LogExpression(b.logMessage) \o ")")
        /\ (TruthyMessage(b.logMessage) /\ ~Truthy(b.condition)) =>
             s[2] = Some(LogExpression(b.logMessage))
        /\ (~TruthyMessage(b.logMessage) /\ Truthy(b.condition)) =>
             s[2] = b.condition

\* C23, amended: the condition sent for a breakpoint with a logMessage and
\* a condition is (condition) && logExpr, the log expression not in
\* parentheses; with a logMessage only it is logExpr, with a condition only
\* the condition.
C23_ConditionParenthesisedBeforeLogExpr ==
  \A s \in sentConditions :
    LET b == logPoints[s[1]]
    IN  /\ (TruthyMessage(b.logMessage) /\ Truthy(b.condition)) =>
             s[2] = Some("(" \o b.condition[1] \o ") && "
                           \o LogExpression(b.logMessage))
        /\ (TruthyMessage(b.logMessage) /\ ~Truthy(b.condition)) =>
             s[2] = Some(LogExpression(b.logMessage))
        /\ (~TruthyMessage(b.logMessage) /\ Truthy(b.condition)) =>
             s[2] = b.condition

C23_Witness ==
  \E s \in sentConditions :
    /\ logPoints[s[1]].condition = Some("a || b")
    /\ TruthyMessage(logPoints[s[1]].logMessage)
    /\ s[2] = Some("(a || b) && console.log('x = %O', x)\n//# sourceURL=logpoint.cdp")

----------------------------------------------------------------------------
(* The script-source-map handler's answer (src/unnamed/part_002 256-277,   *)
(* 116-134).  Breakpoints are written as their line and column; the        *)
(* authored sources are "a" and "b".                                       *)

AuthoredSources == {"a", "b"}

\* 1-based positions a breakpoint may ask for
LineColumns ==
  {[lineNumber |-> 1, columnNumber |-> 1], [lineNumber |-> 2, columnNumber |-> 1],
   [lineNumber |-> 3, columnNumber |-> 1], [lineNumber |-> 4, columnNumber |-> 1],
   [lineNumber |-> 5, columnNumber |-> 1]}

UiLocation(lineNumber, columnNumber) ==
  [lineNumber |-> lineNumber, columnNumber |-> columnNumber]

\* SourceContainer.currentSiblingUiLocations(uiLocation, script.source): the
\* positions of the compiled script that the source map gives for a position
\* of the authored source
CurrentSiblingUiLocations(lineColumn) ==
  CASE lineColumn.lineNumber = 1 -> <<UiLocation(1, 1)>>
    [] lineColumn.lineNumber = 2 -> <<UiLocation(1, 7)>>
    [] lineColumn.lineNumber = 3 -> <<UiLocation(3, 1)>>
    [] lineColumn.lineNumber = 4 -> <<UiLocation(7, 3), UiLocation(0, 0)>>
    [] OTHER -> << >>

InitRP ==
  /\ byPath = [source \in AuthoredSources |-> << >>]
  /\ byRef = [source \in AuthoredSources |-> << >>]
  /\ handlerResult = [script |-> << >>, registered |-> {}, result |-> << >>,
                      remainPaused |-> FALSE]

\* setBreakpoints (434-441): the list of the source is replaced
StoreBreakpoints(source, byItsPath, points) ==
  /\ IF byItsPath
     THEN byPath' = [byPath EXCEPT ![source] = points] /\ UNCHANGED byRef
     ELSE byRef' = [byRef EXCEPT ![source] = points] /\ UNCHANGED byPath
  /\ Len(byPath'["a"]) + Len(byPath'["b"]) + Len(byRef'["a"]) + Len(byRef'["b"])
       <= MaxRegistered
  /\ UNCHANGED handlerResult

\* Breakpoint.updateForSourceMap (116-134): what it returns
UpdateForSourceMap(breakpoint) == CurrentSiblingUiLocations(breakpoint)

\* the handler's loop (262-270): the results of updateForSourceMap, in order
RECURSIVE Todo(_)
Todo(authored) ==
  IF authored = << >> THEN << >>
  ELSE [i \in DOMAIN byPath[Head(authored)] |->
          UpdateForSourceMap(byPath[Head(authored)][i])]
       \o [i \in DOMAIN byRef[Head(authored)] |->
             UpdateForSourceMap(byRef[Head(authored)][i])]
       \o Todo(Tail(authored))

\* the Breakpoints registered, by path or by reference, for these sources
Registered(authored) ==
  UNION {SeqToSet(byPath[source]) \cup SeqToSet(byRef[source]) :
           source \in SeqToSet(authored)}

RemainPausedIfEither(result) ==
  \E i \in DOMAIN result : \E j \in DOMAIN result[i] :
    result[i][j].columnNumber <= 1 \/ result[i][j].lineNumber <= 1

\* result.some(r => r.some(l => l.columnNumber <= 1 && l.lineNumber <= 1))
RemainPaused(result) ==
  \E i \in DOMAIN result : \E j \in DOMAIN result[i] :
    result[i][j].columnNumber <= 1 /\ result[i][j].lineNumber <= 1

\* _scriptSourceMapHandler(script, sources) (256-277); its awaits change
\* nothing of what it answers
ScriptSourceMapHandler(authored) ==
  /\ handlerResult' = [script |-> authored, registered |-> Registered(authored),
                       result |-> Todo(authored),
                       remainPaused |-> RemainPaused(Todo(authored))]
  /\ UNCHANGED <<byPath, byRef>>

PointSequences ==
  {<< >>} \cup {<<p>> : p \in LineColumns}
    \cup {<<p, q>> : p \in LineColumns, q \in LineColumns}

RemainPausedNext ==
  \/ \E source \in AuthoredSources, byItsPath \in BOOLEAN,
        points \in PointSequences :
       StoreBreakpoints(source, byItsPath, points) /\ UNCHANGED restRP
  \/ \E authored \in {<<"a">>, <<"b">>, <<"a", "b">>} :
       ScriptSourceMapHandler(authored) /\ UNCHANGED restRP

\* C27: the handler answers remainPaused = true exactly when a location that
\* updateForSourceMap computes for a Breakpoint registered for one of the
\* script's authored sources has line <= 1 and column <= 1; with no such
\* Breakpoint it answers false.
C27_RemainPausedIffLocationAtStart ==
  handlerResult.script # << >> =>
    (handlerResult.remainPaused
       <=> \E breakpoint \in handlerResult.registered :
             \E l \in SeqToSet(CurrentSiblingUiLocations(breakpoint)) :
               l.lineNumber <= 1 /\ l.columnNumber <= 1)

\* two Breakpoints are affected, one resolves past the start of the script
\* and the other one at it; a third source's Breakpoint does not count
C27_Witness ==
  /\ handlerResult.script = <<"a">>
  /\ handlerResult.remainPaused
  /\ Len(handlerResult.result) = 2
  /\ handlerResult.result[1] = <<UiLocation(3, 1)>>
  /\ handlerResult.result[2] = <<UiLocation(7, 3), UiLocation(0, 0)>>

----------------------------------------------------------------------------
(* Breakpoint.breakpointResolved, one Breakpoint with its resolutions      *)
(* running side by side (src/unnamed/part_002 92-114, 215-219)             *)

CdpIds == 1 .. MaxResolutions

\* Cdp.Debugger.Location, as the line it names
RawLocations == {10, 20}

InitRS ==
  /\ resolvedAt = Undefined
  /\ resolvedIds = {}
  /\ translations = {}
  /\ assignments = << >>
  /\ removeCalled = FALSE

\* breakpointResolved (92-107) up to `await thread.rawLocationToUiLocation`
BreakpointResolved(cdpId, resolvedLocations) ==
  /\ resolvedIds' = resolvedIds \cup {cdpId}
  /\ translations' =
       IF resolvedAt # Undefined \/ resolvedLocations = << >>
       THEN translations
       ELSE translations \cup {[cdpId |-> cdpId, raw |-> resolvedLocations[1]]}
  /\ UNCHANGED <<resolvedAt, assignments, removeCalled>>

AssignsWithoutSecondTest(uiLocation) == uiLocation # Undefined

\* `if (this._resolvedUiLocation || !uiLocation) return;` (106)
Assigns(uiLocation) == resolvedAt = Undefined /\ uiLocation # Undefined

\* breakpointResolved (104-113) after the await: rawLocationToUiLocation
\* returned uiLocation (or undefined), the container knows the source (or
\* not), currentSiblingUiLocations(...)[0] is sibling (or undefined)
RawLocationTranslated(translation, uiLocation, sourceKnown, sibling) ==
  /\ translation \in translations
  /\ translations' = translations \ {translation}
  /\ IF Assigns(uiLocation) /\ sourceKnown
     THEN /\ resolvedAt' = sibling
          /\ assignments' = IF removeCalled THEN assignments
                            ELSE Append(assignments, sibling)
     ELSE UNCHANGED <<resolvedAt, assignments>>
  /\ UNCHANGED <<resolvedIds, removeCalled>>

\* remove() (215-219) up to its await
RemoveCalled ==
  /\ ~removeCalled
  /\ removeCalled' = TRUE
  /\ resolvedAt' = Undefined
  /\ UNCHANGED <<resolvedIds, translations, assignments>>

ResolutionNext ==
  \/ \E cdpId \in CdpIds,
        resolvedLocations \in {<< >>} \cup {<<raw>> : raw \in RawLocations} :
       /\ cdpId \notin resolvedIds
       /\ BreakpointResolved(cdpId, resolvedLocations)
       /\ UNCHANGED restRS
  \/ \E translation \in translations, located \in BOOLEAN,
        sourceKnown \in BOOLEAN, found \in BOOLEAN :
       /\ RawLocationTranslated(
            translation,
            IF located THEN Some(translation.raw) ELSE Undefined,
            sourceKnown,
            IF found /\ located THEN Some(translation.raw + 1) ELSE Undefined)
       /\ UNCHANGED restRS
  \/ RemoveCalled /\ UNCHANGED restRS

\* C30: between its creation and its remove() a Breakpoint's resolved
\* UiLocation, once it holds a location, does not change; at most one
\* location is ever assigned to it; and every resolution registers its
\* runtime id, whether it set the location or not.
C30_ResolvedLocationAssignedOnce ==
  /\ [](Cardinality({i \in DOMAIN assignments : assignments[i] # Undefined}) <= 1)
  /\ [][(~removeCalled /\ ~removeCalled' /\ resolvedAt # Undefined)
          => resolvedAt' = resolvedAt]_vars
  /\ [](\A translation \in translations : translation.cdpId \in resolvedIds)

\* a second resolution, under way when the first one set the location, has
\* finished with another location and left the first one in place
C30_Witness ==
  /\ ~removeCalled
  /\ resolvedAt = Some(11)
  /\ Cardinality(resolvedIds) >= 2
  /\ translations = {}
  /\ assignments = <<Some(11)>>

----------------------------------------------------------------------------
(* StackTrace._appendStackTrace on async parent chains of every shape      *)
(* (src/unnamed/part_001 83-118)                                           *)

AsyncDescriptions == {"async function", "Promise.then", ""}

AsyncSegments(last) ==
  [callFrames : 0 .. MaxChainCallFrames,
   description : AsyncDescriptions,
   parentId : IF last THEN {NoStackTraceId, 1} ELSE {NoStackTraceId}]

AsyncChains ==
  UNION {{c \in [1 .. k -> AsyncSegments(TRUE)] :
            \A i \in 1 .. (k - 1) : c[i].parentId = NoStackTraceId} :
         k \in 1 .. MaxChain}

InitAC ==
  asyncAppend = [stack |-> << >>, before |-> NewStackTrace, after |-> NewStackTrace]

\* a StackTrace that holds `own` frames gets `stack` appended, as in
\* fromDebugger (45-58) and in loadFrames (70)
AppendAsyncChains(own, stack) ==
  LET st == AppendFrames(NewStackTrace, own)
  IN  asyncAppend' = [stack |-> stack, before |-> st,
                      after |-> AppendStackTrace(st, stack)]

AsyncChainsNext ==
  \E own \in 0 .. MaxCallFrames, stack \in AsyncChains :
    AppendAsyncChains(own, stack) /\ UNCHANGED restAC

\* the call frames a chain has after the first one of an 'async function'
\* chain is dropped
FramesKept(seg) ==
  IF seg.description = "async function" /\ seg.callFrames > 0
  THEN seg.callFrames - 1 ELSE seg.callFrames

\* the number of frames that the chains before chain i contribute
RECURSIVE FramesBefore(_, _)
FramesBefore(stack, i) ==
  IF i = 1 THEN 0
  ELSE FramesBefore(stack, i - 1)
         + (IF FramesKept(stack[i - 1]) > 0 THEN FramesKept(stack[i - 1]) + 1 ELSE 0)

\* C36: of the chains appended, each one that keeps at least one call frame
\* contributes one frame with isAsyncSeparator true, named after the chain's
\* description or 'async', directly followed by the chain's call frames, none
\* of them a separator; a chain that keeps no call frame contributes nothing;
\* the frames that were there stay as they were.
C36_OneSeparatorBeforeEachChain ==
  LET stack == asyncAppend.stack
      before == asyncAppend.before
      after == asyncAppend.after
      base == Len(before.frames)
      IsSeparator(p) == after.frames[p] \in after.separators
  IN  /\ Len(after.frames) = base + FramesBefore(stack, Len(stack) + 1)
      /\ SubSeq(after.frames, 1, base) = before.frames
      /\ \A p \in 1 .. base : ~IsSeparator(p)
      /\ \A i \in DOMAIN stack :
           LET kept == FramesKept(stack[i])
               at == base + FramesBefore(stack, i) + 1
           IN  kept > 0 =>
                 /\ IsSeparator(at)
                 /\ after.names[at] = IF stack[i].description = ""
                                      THEN "async" ELSE stack[i].description
                 /\ \A p \in (at + 1) .. (at + kept) :
                      ~IsSeparator(p) /\ after.names[p] = Anonymous
      /\ Cardinality(after.separators)
           = Cardinality({i \in DOMAIN stack : FramesKept(stack[i]) > 0})

\* an 'async function' chain that keeps one of its two call frames, after a
\* chain that lost its only one
C36_Witness ==
  /\ Len(asyncAppend.stack) = 2
  /\ asyncAppend.stack[1].description = "async function"
  /\ asyncAppend.stack[1].callFrames = 1
  /\ asyncAppend.stack[2].description = "async function"
  /\ asyncAppend.stack[2].callFrames = 2
  /\ Len(asyncAppend.before.frames) = 1
  /\ asyncAppend.after.names = <<Anonymous, "async function", Anonymous>>

----------------------------------------------------------------------------
(* ServiceWorkerModel (src/src/chrome/serviceWorkers.ts 42-117)            *)
(*                                                                         *)
(* A registration payload is written as its registrationId and isDeleted;  *)
(* a CDP connection as a number.                                           *)

Connections == 1 .. MaxConnections

RegistrationIds == 1 .. MaxRegistrations

NoCdp == 0

RegistrationPayloads == [registrationId : RegistrationIds, isDeleted : BOOLEAN]

RegistrationBatches ==
  UNION {[1 .. n -> RegistrationPayloads] : n \in 0 .. MaxBatch}

NoBatch == [processed |-> FALSE, payloads |-> << >>, fired |-> 0]

InitSW ==
  /\ swRegistrations = {}
  /\ swCdp = NoCdp
  /\ swEnabling = {}
  /\ swEnabled = {}
  /\ swSubscribed = {}
  /\ swBatch = NoBatch
  /\ swChanges = 0

\* ServiceWorkerModel.addTarget (54-58) up to `await cdp.ServiceWorker.enable`;
\* a call that returns at once (`if (this._cdp) return`) changes nothing, and
\* each connection is passed to addTarget by one call at a time
AddTarget(cdp) ==
  /\ cdp \notin swEnabling
  /\ swCdp = NoCdp
  /\ swEnabled' = swEnabled \cup {cdp}
  /\ swEnabling' = swEnabling \cup {cdp}
  /\ UNCHANGED <<swRegistrations, swCdp, swSubscribed, swBatch, swChanges>>

\* ServiceWorker.enable returns: addTarget (59-61) subscribes and keeps cdp
EnableReturned(cdp) ==
  /\ cdp \in swEnabling
  /\ swEnabling' = swEnabling \ {cdp}
  /\ swSubscribed' = swSubscribed \cup {cdp}
  /\ swCdp' = cdp
  /\ UNCHANGED <<swRegistrations, swEnabled, swBatch, swChanges>>

\* the loop of _workerRegistrationsUpdated (106-115): the registrations it
\* leaves and whether it ran to its end
RECURSIVE ApplyRegistrations(_, _)
ApplyRegistrations(registered, payloads) ==
  IF payloads = << >> THEN [registrations |-> registered, completed |-> TRUE]
  ELSE LET payload == Head(payloads)
       IN  IF payload.isDeleted
           THEN ApplyRegistrations(registered \ {payload.registrationId},
                                   Tail(payloads))
           ELSE IF payload.registrationId \in registered
                THEN [registrations |-> registered, completed |-> FALSE]
                ELSE ApplyRegistrations(registered \cup {payload.registrationId},
                                        Tail(payloads))

\* ServiceWorkerModel._workerRegistrationsUpdated (105-117), called for a
\* workerRegistrationUpdated event of a connection it has subscribed to
WorkerRegistrationsUpdated(cdp, payloads) ==
  /\ cdp \in swSubscribed
  /\ LET applied == ApplyRegistrations(swRegistrations, payloads)
         fired == IF applied.completed THEN 1 ELSE 0
     IN  /\ swRegistrations' = applied.registrations
         /\ swBatch' = [processed |-> TRUE, payloads |-> payloads, fired |-> fired]
         /\ swChanges' = (swChanges + fired) % 2
  /\ UNCHANGED <<swCdp, swEnabling, swEnabled, swSubscribed>>

ServiceWorkerNext ==
  \/ \E cdp \in Connections : AddTarget(cdp) /\ UNCHANGED restSW
  \/ \E cdp \in Connections : EnableReturned(cdp) /\ UNCHANGED restSW
  \/ \E cdp \in Connections, payloads \in RegistrationBatches :
       WorkerRegistrationsUpdated(cdp, payloads) /\ UNCHANGED restSW

\* the last payload of the batch that names registration id, as a set
LastPayloadFor(payloads, id) ==
  LET at == {i \in DOMAIN payloads : payloads[i].registrationId = id}
  IN  {payloads[i] : i \in {j \in at : \A k \in at : k <= j}}

\* C38: after _workerRegistrationsUpdated has processed a batch, every payload
\* of it has been applied (a registration that the batch deletes is not in
\* the map, one that it reports is; the last payload for an id decides) and
\* onDidChange has fired once for the batch.
C38_BatchAppliedAndChangeFired ==
  swBatch.processed =>
    /\ \A id \in RegistrationIds :
         \A payload \in LastPayloadFor(swBatch.payloads, id) :
           (id \in swRegistrations) <=> ~payload.isDeleted
    /\ swBatch.fired = 1

\* C40: ServiceWorker.enable is sent and the worker events are subscribed to
\* on at most one connection, also when addTarget is called again while the
\* first call awaits ServiceWorker.enable.
C40_OneConnectionEnabled ==
  /\ Cardinality(swEnabled) <= 1
  /\ Cardinality(swSubscribed) <= 1

----------------------------------------------------------------------------
(* NodeAttacherBase (src/unnamed/part_000 17-89)                           *)
(*                                                                         *)
(* A program is written as the number of the launch that created it; the   *)
(* launcher makes a new program object for every launch and clears the     *)
(* field when the program ends.                                            *)

Programs == 1 .. MaxPrograms

NoProgram == 0

Telemetries == {"undefined", "exceptionDetails", "value"}

InitNA ==
  /\ naProgram = NoProgram
  /\ naLaunched = 0
  /\ naCaptured = NoProgram
  /\ naLifecycles = << >>
  /\ naRuns = [p \in {NoProgram} \cup Programs |-> 0]
  /\ naTelemetry = {}

\* NodeLauncherBase sets this.program to the program it has just started
LaunchProgram ==
  /\ naLaunched < MaxPrograms
  /\ naLaunched' = naLaunched + 1
  /\ naProgram' = naLaunched + 1
  /\ UNCHANGED <<naCaptured, naLifecycles, naRuns, naTelemetry>>

\* NodeLauncherBase clears this.program when the program has ended
ProgramEnded ==
  /\ naProgram # NoProgram
  /\ naProgram' = NoProgram
  /\ UNCHANGED <<naLaunched, naCaptured, naLifecycles, naRuns, naTelemetry>>

CreateLifecycleUncaptured ==
  /\ Len(naLifecycles) < MaxLifecycles
  /\ IF naProgram = naCaptured
       THEN /\ naLifecycles' = Append(naLifecycles,
                 [program |-> naProgram, hooks |-> FALSE, state |-> "created"])
            /\ UNCHANGED naCaptured
       ELSE /\ naCaptured' = naCaptured
            /\ naLifecycles' = Append(naLifecycles,
                 [program |-> naProgram, hooks |-> TRUE, state |-> "created"])
  /\ UNCHANGED <<naProgram, naLaunched, naRuns, naTelemetry>>

\* NodeAttacherBase.createLifecycle (28-45)
CreateLifecycle ==
  /\ Len(naLifecycles) < MaxLifecycles
  /\ IF naProgram = naCaptured
       THEN /\ naLifecycles' = Append(naLifecycles,
                 [program |-> naProgram, hooks |-> FALSE, state |-> "created"])
            /\ UNCHANGED naCaptured
       ELSE /\ naCaptured' = naProgram
            /\ naLifecycles' = Append(naLifecycles,
                 [program |-> naProgram, hooks |-> TRUE, state |-> "created"])
  /\ UNCHANGED <<naProgram, naLaunched, naRuns, naTelemetry>>

\* the initialized hook (37-40) of lifecycle l, which its target calls once:
\* onFirstInitialize (51-57) and gatherTelemetry (62-70) up to
\* `await cdp.Runtime.evaluate`
Initialized(l) ==
  /\ naLifecycles[l].hooks
  /\ naLifecycles[l].state = "created"
  /\ naLifecycles' = [naLifecycles EXCEPT ![l].state = "evaluating"]
  /\ naRuns' = [naRuns EXCEPT ![naLifecycles[l].program] = @ + 1]
  /\ UNCHANGED <<naProgram, naLaunched, naCaptured, naTelemetry>>

\* gatherTelemetry (72-88) once Runtime.evaluate has answered
EvaluateReturned(l, telemetry) ==
  /\ naLifecycles[l].state = "evaluating"
  /\ naLifecycles' = [naLifecycles EXCEPT ![l].state = "initialized"]
  /\ naTelemetry' =
       IF naProgram # NoProgram /\ telemetry = "value"
         THEN naTelemetry \cup {naProgram}
         ELSE naTelemetry
  /\ UNCHANGED <<naProgram, naLaunched, naCaptured, naRuns>>

\* the close hook (41-43) of lifecycle l, which waits for toDispose
CloseLifecycle(l) ==
  /\ naLifecycles[l].hooks
  /\ naLifecycles[l].state \in {"created", "initialized"}
  /\ naLifecycles' = [naLifecycles EXCEPT ![l].state = "closed"]
  /\ UNCHANGED <<naProgram, naLaunched, naCaptured, naRuns, naTelemetry>>

NodeAttacherNext ==
  \/ LaunchProgram /\ UNCHANGED restNA
  \/ ProgramEnded /\ UNCHANGED restNA
  \/ CreateLifecycle /\ UNCHANGED restNA
  \/ \E l \in DOMAIN naLifecycles : Initialized(l) /\ UNCHANGED restNA
  \/ \E l \in DOMAIN naLifecycles, telemetry \in Telemetries :
       EvaluateReturned(l, telemetry) /\ UNCHANGED restNA
  \/ \E l \in DOMAIN naLifecycles : CloseLifecycle(l) /\ UNCHANGED restNA

\* a lifecycle has just been returned by createLifecycle
LifecycleCreated == Len(naLifecycles') = Len(naLifecycles) + 1

\* C39: for each program onFirstInitialize runs at most once: of the
\* lifecycles createLifecycle returned for the program exactly the first
\* carries the initialized and close hooks, every later one is empty, and a
\* createLifecycle call made after the program changed carries the hooks again.
C39_InstrumentedOncePerProgram ==
  /\ [](\A p \in Programs :
          /\ naRuns[p] <= 1
          /\ \A i \in DOMAIN naLifecycles :
               naLifecycles[i].program = p =>
                 (naLifecycles[i].hooks <=>
                    \A j \in 1 .. (i - 1) : naLifecycles[j].program # p))
  /\ [][LifecycleCreated /\ naProgram # naCaptured =>
          /\ naLifecycles'[Len(naLifecycles')].hooks
          /\ naCaptured' = naProgram]_vars

C39_Witness ==
  /\ Len(naLifecycles) = 3
  /\ naLifecycles[1].program = 1 /\ naLifecycles[1].hooks
  /\ naLifecycles[1].state = "initialized" /\ naRuns[1] = 1
  /\ naLifecycles[2].program = 1 /\ ~naLifecycles[2].hooks
  /\ naLifecycles[3].program = 2 /\ naLifecycles[3].hooks
  /\ naRuns[2] = 1

----------------------------------------------------------------------------
(* Specifications                                                          *)

Init == InitTM /\ InitBL /\ InitBP /\ InitST /\ InitSM /\ InitPR /\ InitVS
          /\ InitSV /\ InitLP /\ InitRP /\ InitRS /\ InitAC /\ InitSW /\ InitNA

SpecTargets == Init /\ [][TargetsNext]_vars

SpecLauncher == Init /\ [][LauncherNext]_vars

SpecBreakpoints == Init /\ [][BreakpointsNext]_vars

SpecStackTrace == Init /\ [][StackTraceNext]_vars

SpecSourceMap == Init /\ [][SourceMapNext]_vars

SpecSectionUrl == Init /\ [][SectionUrlNext]_vars

SpecVLQ == Init /\ [][VLQNext]_vars

SpecPathResolver == Init /\ [][PathResolverNext]_vars

SpecVariables == Init /\ [][VariablesNext]_vars

SpecSetVariable == Init /\ [][SetVariableNext]_vars

SpecLogPoint == Init /\ [][LogPointNext]_vars

SpecRemainPaused == Init /\ [][RemainPausedNext]_vars

SpecResolution == Init /\ [][ResolutionNext]_vars

SpecAsyncChains == Init /\ [][AsyncChainsNext]_vars

SpecServiceWorkers == Init /\ [][ServiceWorkerNext]_vars

SpecNodeAttacher == Init /\ [][NodeAttacherNext]_vars

====
